---- MODULE Spec2Model ----
(***************************************************************************)
(* AetherFS graph core: the GraphStore repair pass (render/renderer.js)    *)
(* and the ForceLayout tree depth / order calculator (layout engine).      *)
(*                                                                         *)
(* Node objects live in a heap `obj` (id -> fields) and the node arrays    *)
(* hold references (ids): the store, the engine and the app share the      *)
(* same node objects, so a write to a node is seen through every array.    *)
(* Node ids are opaque and only compared for equality, so every node array *)
(* is taken in the canonical labelling <<1, .., k>>: the array order is    *)
(* the id order, and parentId / edge endpoints range over all ids.         *)
(***************************************************************************)
EXTENDS Integers, Sequences, FiniteSets, TLC

\* ---------------------------------------------------------------- bounds
\* GraphStore inputs: at most MaxNodes nodes and MaxEdges input edges.
MaxNodes == 3
MaxEdges == 3
\* Calculator inputs: at most TreeMaxNodes nodes, TreeMaxEdges edges and
\* MaxNames different names (equal names are drawn too).
TreeMaxNodes == 4
TreeMaxEdges == 2
MaxNames == 2

\* ------------------------------------------------------------- constants
\* JS null / undefined of an id-valued field (parentId, rootId).
Null == 0
\* A layout annotation that was never written (JS undefined).
Undefined == -2
\* n._depth = -1 : "unassigned" marker of _calcTreeDepths' reset.
Unassigned == -1
\* alpha: 1, the energy of the engine literal. Energies are fixed-point
\* numbers in units of 10^-8.
AlphaOne == 100000000
\* cfg.alphaDecay: 0.018, in thousandths.
alphaDecay == 18
\* cfg.alphaMin: 0.005, in units of 10^-8.
alphaMin == 500000
\* this.reheat(0.8) of setMode, in units of 10^-8.
SetModeEnergy == 80000000
\* const hStep = 300; const vStep = 100; of applyStrictLayout.
hStep == 300
vStep == 100
\* JS null in a numeric field (node.fx = null when a drag ends).
Nil == -3
\* A number the engine computed in floating point from random start values
\* and forces (Math.random() in init, the sums of _applyForces): its value
\* is not tracked, only that it is such a number.
Float == -4
\* NaN: what arithmetic on undefined yields (undefined + 1, undefined * 0.7).
NaN == -5

VARIABLES
    nodes,      \* the caller's node array (App._nodes / ForceLayout.nodes): Seq of ids
    edges,      \* the caller's edge array (App._edges / ForceLayout.edges)
    obj,        \* the node objects: id -> [parentId, name, _depth, ...]
    _nodes,     \* GraphStore._nodes
    _edges,     \* GraphStore._edges
    fixed,      \* the { fixed } returned by the last loadGraph / refreshGraph
    argEdges,   \* history: the edge array handed to the last loadGraph / refreshGraph
    pc,         \* position of the driving collaborator
    calc,       \* the locals of a _calcTreeDepths activation that runs step by step
    mode,       \* ForceLayout.mode
    alpha,      \* ForceLayout.alpha, in units of 1 / AlphaScale
    running,    \* ForceLayout.running
    _raf,       \* ForceLayout._raf
    body,       \* the simulation fields of the node objects: id -> [x, y, vx, ...]
    sched,      \* the host's frame queue and the _tick activations on the stack
    onTickLog,  \* history: the onTick calls of the current run
    _listeners, \* GraphStore._listeners, in insertion order
    emitted,    \* history: the listener calls of the last loadGraph / refreshGraph
    awaiting,   \* the storage call an async handler of the app is suspended at
    backupNodes, \* const backupNodes of the suspended ctx_delete
    backupEdges  \* const backupEdges of the suspended ctx_delete

vars == <<nodes, edges, obj, _nodes, _edges, fixed, argEdges, pc,
          calc, mode, alpha, running, _raf, body, sched, onTickLog,
          _listeners, emitted, awaiting, backupNodes, backupEdges>>

\* The store's listeners and what they were called with. The app never
\* calls graphStore.subscribe: with the app as the only collaborator the
\* set stays empty and _emit calls nobody.
observerVars == <<_listeners, emitted>>

\* What the layout engine holds besides the arrays and the node objects.
engineVars == <<mode, alpha, running, _raf, body, sched, onTickLog>>

\* The locals of the app's handler that waits for the storage provider.
asyncVars == <<awaiting, backupNodes, backupEdges>>

\* ------------------------------------------------------------ data model
Range(s) == {s[i] : i \in DOMAIN s}

SeqsUpTo(S, n) == UNION {[1..m -> S] : m \in 0..n}

\* A node object as a collaborator creates it: no layout annotation yet.
NewNode(parentId, name) ==
    [parentId |-> parentId, name |-> name,
     _depth |-> Undefined, _vIndex |-> Undefined, _visited |-> FALSE,
     _vCount |-> Undefined, _maxDepth |-> Undefined]

\* An edge of the input array; its id is its position in the array, so that
\* duplicates of one (source, target) pair stay distinguishable.
InputEdge(i, source, target) ==
    [id |-> <<"in", i>>, source |-> source, target |-> target]

\* id: `${parentId}->${n.id}` of an edge the repair synthesizes.
SynthEdge(source, target) ==
    [id |-> <<"syn", source, target>>, source |-> source, target |-> target]

\* ------------------------------------------------------------ GraphStore
\* nodeIds = new Set(this._nodes.map(n => n.id))
NodeIds(ns) == Range(ns)

\* Mutant of RemoveOrphanEdges: only the target is looked up.
RemoveOrphanEdgesTargetOnly(ns, es) ==
    SelectSeq(es, LAMBDA e : e.target \in NodeIds(ns))

\* 1) Remove edges referencing non-existent nodes
RemoveOrphanEdges(ns, es) ==
    SelectSeq(es, LAMBDA e : e.source \in NodeIds(ns) /\ e.target \in NodeIds(ns))

\* 2) Deduplicate edges (same source->target): the loop over this._edges
RECURSIVE DedupLoop(_, _, _)
DedupLoop(es, edgeKeys, uniqueEdges) ==
    IF es = <<>> THEN uniqueEdges
    ELSE LET e == Head(es)
             key == <<e.source, e.target>>
         IN  IF key \notin edgeKeys
             THEN DedupLoop(Tail(es), edgeKeys \cup {key}, Append(uniqueEdges, e))
             ELSE DedupLoop(Tail(es), edgeKeys, uniqueEdges)

\* Mutant of UniqueEdges: a later duplicate replaces the edge kept so far.
UniqueEdgesKeepLast(es) ==
    LET Reverse(q) == [i \in DOMAIN q |-> q[Len(q) + 1 - i]]
    IN  Reverse(DedupLoop(Reverse(es), {}, <<>>))

UniqueEdges(es) == DedupLoop(es, {}, <<>>)

\* 3) Find root node (node with no incoming edge)
RootId(ns, es) ==
    LET targeted == {es[i].target : i \in DOMAIN es}
        roots == SelectSeq(ns, LAMBDA n : n \notin targeted)
    IN  IF Len(roots) > 0 THEN roots[1]
        ELSE IF Len(ns) > 0 THEN ns[1] ELSE Null

\* 4) Detect dangling nodes: the set `connected`
Connected(es, rootId) ==
    (IF rootId # Null THEN {rootId} ELSE {})
        \cup {es[i].source : i \in DOMAIN es} \cup {es[i].target : i \in DOMAIN es}

\* 4) the nodes the reconnect loop handles, in array order
Dangling(ns, es, rootId) ==
    SelectSeq(ns, LAMBDA n : n \notin Connected(es, rootId) /\ n # rootId)

\* Mutant of ReconnectEdge: the node's parentId is not consulted.
ReconnectEdgeToRoot(n, ns, rootId, o) ==
    IF rootId # Null THEN <<SynthEdge(rootId, n)>> ELSE <<>>

\* Mutant of ReconnectEdge: the edge leads from the node to its parent.
ReconnectEdgeFromNode(n, ns, rootId, o) ==
    LET parentId == IF o[n].parentId # Null THEN o[n].parentId ELSE rootId
    IN  IF parentId # Null /\ parentId \in NodeIds(ns)
        THEN <<SynthEdge(n, parentId)>>
        ELSE IF rootId # Null THEN <<SynthEdge(n, rootId)>> ELSE <<>>

\* 4) the edge pushed for one dangling node n: to its parent or to the root
ReconnectEdge(n, ns, rootId, o) ==
    LET parentId == IF o[n].parentId # Null THEN o[n].parentId ELSE rootId
    IN  IF parentId # Null /\ parentId \in NodeIds(ns)
        THEN <<SynthEdge(parentId, n)>>
        ELSE IF rootId # Null THEN <<SynthEdge(rootId, n)>> ELSE <<>>

RECURSIVE ReconnectLoop(_, _, _, _)
ReconnectLoop(dangling, ns, rootId, o) ==
    IF dangling = <<>> THEN <<>>
    ELSE ReconnectEdge(Head(dangling), ns, rootId, o)
            \o ReconnectLoop(Tail(dangling), ns, rootId, o)

\* Mutant of FixedCount: a dropped duplicate is not counted.
FixedCountWithoutDuplicates(es, known, unique, dangling) ==
    (Len(es) - Len(known)) + Len(dangling)

\* let fixed: fixed += beforeEdges - this._edges.length in step 1, fixed++
\* for every duplicate in step 2 and for every dangling node in step 4
FixedCount(es, known, unique, dangling) ==
    (Len(es) - Len(known)) + (Len(known) - Len(unique)) + Len(dangling)

\* GraphStore._ensureGraphIntegrity on this._nodes = ns, this._edges = es:
\* the repaired edge array and the returned fixed count.
_ensureGraphIntegrity(ns, es, o) ==
    LET known == RemoveOrphanEdges(ns, es)
        unique == UniqueEdges(known)
        rootId == RootId(ns, unique)
        dangling == Dangling(ns, unique, rootId)
    IN  [edges |-> unique \o ReconnectLoop(dangling, ns, rootId, o),
         fixed |-> FixedCount(es, known, unique, dangling),
         rootId |-> rootId]

\* ------------------------------------------- ForceLayout._calcTreeDepths
\* Mutant of ResetAnnotations: _depth is left out of the reset.
ResetAnnotationsKeepDepth(ns, o) ==
    [n \in DOMAIN o |->
        IF n \in Range(ns)
        THEN [o[n] EXCEPT !._vIndex = 0, !._visited = FALSE,
                          !._vCount = 1, !._maxDepth = 0]
        ELSE o[n]]

\* STEP 0: FULL RESET of the computed properties of every node of the array
ResetAnnotations(ns, o) ==
    [n \in DOMAIN o |->
        IF n \in Range(ns)
        THEN [o[n] EXCEPT !._depth = Unassigned, !._vIndex = 0, !._visited = FALSE,
                          !._vCount = 1, !._maxDepth = 0]
        ELSE o[n]]

\* STEP 1: the edges kept for the adjacency (both ends in nodeMap)
AdjacencyEdges(ns, es) ==
    SelectSeq(es, LAMBDA e : e.source \in Range(ns) /\ e.target \in Range(ns))

\* STEP 1: childrenMap.get(id), the targets in edge order, repeats included
Children(id, ns, es) ==
    LET out == SelectSeq(AdjacencyEdges(ns, es), LAMBDA e : e.source = id)
    IN  [i \in DOMAIN out |-> out[i].target]

\* STEP 1: incomingCount.get(id)
IncomingCount(id, ns, es) ==
    Len(SelectSeq(AdjacencyEdges(ns, es), LAMBDA e : e.target = id))

\* STEP 2: FIND ROOTS, in array order; the first node when there is none
Roots(ns, es) ==
    LET roots == SelectSeq(ns, LAMBDA n : IncomingCount(n, ns, es) = 0)
    IN  IF Len(roots) = 0 /\ Len(ns) > 0 THEN <<ns[1]>> ELSE roots

\* STEP 3: the roots get depth 0, are marked visited and queued
BfsStart(ns, es, depth) ==
    LET roots == Roots(ns, es)
    IN  [depth |-> [n \in DOMAIN depth |-> IF n \in Range(roots) THEN 0 ELSE depth[n]],
         bfsVisited |-> Range(roots),
         queue |-> roots]

\* Mutant of BfsChildren: a child that was already visited gets its depth
\* overwritten (last writer wins) instead of being skipped.
RECURSIVE BfsChildrenLastWins(_, _, _)
BfsChildrenLastWins(children, curr, st) ==
    IF children = <<>> THEN st
    ELSE LET childId == Head(children)
             deeper == [st.depth EXCEPT ![childId] = st.depth[curr] + 1]
         IN  IF childId \in st.bfsVisited
             THEN BfsChildrenLastWins(Tail(children), curr, [st EXCEPT !.depth = deeper])
             ELSE BfsChildrenLastWins(Tail(children), curr,
                    [depth |-> deeper,
                     bfsVisited |-> st.bfsVisited \cup {childId},
                     queue |-> Append(st.queue, childId)])

\* Mutant of BfsChildren: no visited set, every child is queued again.
RECURSIVE BfsChildrenRequeue(_, _, _)
BfsChildrenRequeue(children, curr, st) ==
    IF children = <<>> THEN st
    ELSE LET childId == Head(children)
         IN  BfsChildrenRequeue(Tail(children), curr,
                [depth |-> [st.depth EXCEPT ![childId] = st.depth[curr] + 1],
                 bfsVisited |-> st.bfsVisited \cup {childId},
                 queue |-> Append(st.queue, childId)])

\* STEP 3: the inner loop over the children of curr
RECURSIVE BfsChildren(_, _, _)
BfsChildren(children, curr, st) ==
    IF children = <<>> THEN st
    ELSE LET childId == Head(children)
         IN  IF childId \in st.bfsVisited
             THEN BfsChildren(Tail(children), curr, st)
             ELSE BfsChildren(Tail(children), curr,
                    [depth |-> [st.depth EXCEPT ![childId] = st.depth[curr] + 1],
                     bfsVisited |-> st.bfsVisited \cup {childId},
                     queue |-> Append(st.queue, childId)])

\* STEP 3: while (queue.length > 0); yields the _depth of every node
RECURSIVE BfsLoop(_, _, _)
BfsLoop(st, ns, es) ==
    IF st.queue = <<>> THEN st.depth
    ELSE LET curr == Head(st.queue)
         IN  BfsLoop(BfsChildren(Children(curr, ns, es), curr,
                                 [st EXCEPT !.queue = Tail(st.queue)]), ns, es)

\* the running maximum: let maxDepth = 0; if (n._depth > maxDepth) ...
MaxDepthOf(ns, depth) ==
    LET ds == {depth[n] : n \in Range(ns)} \cup {0}
    IN  CHOOSE d \in ds : \A e \in ds : e <= d

\* Mutant of Fallback: the unreached nodes are placed at maxDepth itself.
FallbackAtMaxDepth(ns, depth) ==
    [n \in DOMAIN depth |->
        IF n \in Range(ns) /\ depth[n] = Unassigned
        THEN MaxDepthOf(ns, depth) ELSE depth[n]]

\* STEP 4: FALLBACK, a node BFS left unassigned is placed at maxDepth + 1
Fallback(ns, depth) ==
    [n \in DOMAIN depth |->
        IF n \in Range(ns) /\ depth[n] = Unassigned
        THEN MaxDepthOf(ns, depth) + 1 ELSE depth[n]]

\* Mutant of SortByName: the children stay in the order of the edge array.
Unsorted(s, o) == s

\* .sort((a, b) => a.name.localeCompare(b.name)): stable, by name
RECURSIVE SortByName(_, _)
SortByName(s, o) ==
    IF s = <<>> THEN <<>>
    ELSE LET x == s[Len(s)]
             sorted == SortByName(SubSeq(s, 1, Len(s) - 1), o)
         IN  SelectSeq(sorted, LAMBDA y : o[y].name <= o[x].name)
                \o <<x>> \o SelectSeq(sorted, LAMBDA y : o[y].name > o[x].name)

\* levels.get(depth), 0 when the level has no entry yet
LevelOf(levels, d) == IF d \in DOMAIN levels THEN levels[d] ELSE 0

\* STEP 5: visit(nodeId). st holds the nodes' _visited and _vIndex and the
\* levels map; c holds what the closure reads (nodes, edges, _depth, names).
RECURSIVE Visit(_, _, _)
RECURSIVE VisitEach(_, _, _)
Visit(nodeId, st, c) ==
    IF nodeId \notin Range(c.ns) \/ nodeId \in st.visited THEN st
    ELSE LET depth == c.depth[nodeId]
             index == LevelOf(st.levels, depth)
             st1 == [visited |-> st.visited \cup {nodeId},
                     vIndex |-> [st.vIndex EXCEPT ![nodeId] = index],
                     levels |-> [d \in DOMAIN st.levels \cup {depth} |->
                                    IF d = depth THEN index + 1 ELSE st.levels[d]]]
             childIds == SortByName(
                            SelectSeq(Children(nodeId, c.ns, c.es),
                                      LAMBDA ch : ch \notin st1.visited), c.o)
         IN  VisitEach(childIds, st1, c)

VisitEach(ids, st, c) ==
    IF ids = <<>> THEN st
    ELSE VisitEach(Tail(ids), Visit(Head(ids), st, c), c)

\* Mutant of DfsOrder: the sweep over the nodes still unvisited is missing.
DfsOrderNoSweep(ns, es, depth, o) ==
    LET c == [ns |-> ns, es |-> es, depth |-> depth, o |-> o]
        st0 == [visited |-> {n \in Range(ns) : o[n]._visited},
                vIndex |-> [n \in DOMAIN o |-> o[n]._vIndex],
                levels |-> <<>>]
    IN  VisitEach(SortByName(Roots(ns, es), o), st0, c)

\* STEP 5: visit from the name-sorted roots, then every node still unvisited
DfsOrder(ns, es, depth, o) ==
    LET c == [ns |-> ns, es |-> es, depth |-> depth, o |-> o]
        st0 == [visited |-> {n \in Range(ns) : o[n]._visited},
                vIndex |-> [n \in DOMAIN o |-> o[n]._vIndex],
                levels |-> <<>>]
        afterRoots == VisitEach(SortByName(Roots(ns, es), o), st0, c)
    IN  VisitEach(ns, afterRoots, c)

\* STEP 6: depthCounts.get(d) = max (_vIndex + 1) over the nodes at depth d
DepthCount(d, ns, depth, vIndex) ==
    LET cs == {vIndex[n] + 1 : n \in {m \in Range(ns) : depth[m] = d}} \cup {0}
    IN  CHOOSE v \in cs : \A w \in cs : w <= v

\* _calcTreeDepths(nodes, edges): the node objects with their annotations
_calcTreeDepths(ns, es, o) ==
    IF Len(ns) = 0 THEN o
    ELSE LET reset == ResetAnnotations(ns, o)
             bfs == BfsLoop(BfsStart(ns, es, [n \in DOMAIN o |-> reset[n]._depth]), ns, es)
             depth == Fallback(ns, bfs)
             maxDepth == MaxDepthOf(ns, depth)
             dfs == DfsOrder(ns, es, depth, reset)
         IN  [n \in DOMAIN o |->
                IF n \in Range(ns)
                THEN [reset[n] EXCEPT
                        !._depth = depth[n],
                        !._vIndex = dfs.vIndex[n],
                        !._visited = n \in dfs.visited,
                        !._vCount = IF DepthCount(depth[n], ns, depth, dfs.vIndex) = 0 THEN 1
                                    ELSE DepthCount(depth[n], ns, depth, dfs.vIndex),
                        !._maxDepth = maxDepth]
                ELSE o[n]]

\* ---------------------------------------------------- the engine literal
\* No _calcTreeDepths activation is suspended.
NoCalc == <<>>

\* constructor(): this._listeners = new Set()
NoListeners == _listeners = <<>> /\ emitted = <<>>

\* No handler is suspended at an await.
NotAwaiting == awaiting = "none" /\ backupNodes = <<>> /\ backupEdges = <<>>

\* The simulation fields of a node object no collaborator has positioned.
FreshBody ==
    [x |-> Undefined, y |-> Undefined, vx |-> Undefined, vy |-> Undefined,
     fx |-> Undefined, fy |-> Undefined, collapsed |-> FALSE]

\* export const ForceLayout = { nodes: [], edges: [], alpha: 1,
\* running: false, _raf: null, ... }: the engine before init(). No frame is
\* requested from the host and onTick was never called.
EngineLiteral ==
    /\ mode = "undefined"
    /\ alpha = AlphaOne
    /\ running = FALSE
    /\ _raf = "null"
    /\ body = [n \in DOMAIN obj |-> FreshBody]
    /\ sched = [orphans |-> 0, inCallback |-> "no", overlap |-> FALSE]
    /\ onTickLog = [ticks |-> 0, finals |-> 0, stepAfterFinal |-> FALSE,
                    runningAtFinal |-> FALSE, last |-> "none",
                    given |-> Unassigned]

\* ------------------------------------------------------------ ForceLayout
\* The engine with the arrays and node objects it works on, as one value
\* that the methods below take and return.
Eng ==
    [nodes |-> nodes, edges |-> edges, obj |-> obj, body |-> body, mode |-> mode,
     alpha |-> alpha, running |-> running, _raf |-> _raf, sched |-> sched,
     log |-> onTickLog]

\* n.fx !== undefined && n.fx !== null
IsPinned(b) == b.fx # Undefined /\ b.fx # Nil

\* isHidden(node) of _getActiveNodes: some ancestor along parentId that is
\* in the node array is collapsed; the walk ends at a node without
\* parentId or at an id the array does not hold.
RECURSIVE isHidden(_, _)
isHidden(curr, e) ==
    IF curr \notin Range(e.nodes) THEN FALSE
    ELSE LET parentId == e.obj[curr].parentId
         IN  IF parentId = Null THEN FALSE
             ELSE IF parentId \in Range(e.nodes) /\ e.body[parentId].collapsed THEN TRUE
             ELSE isHidden(parentId, e)

\* Mutant of _getActiveNodes: every node of the array is active.
_getAllNodes(e) == e.nodes

\* _getActiveNodes(): the nodes not hidden by a collapsed ancestor
_getActiveNodes(e) == SelectSeq(e.nodes, LAMBDA n : ~isHidden(n, e))

\* A numeric field holds a number (null counts as 0 in arithmetic).
IsNumber(v) == v # Undefined /\ v # NaN

\* The node has no numeric position.
Unplaced(b) == ~IsNumber(b.x) \/ ~IsNumber(b.y)

\* _getActiveEdges: the edges whose two endpoints are active
_getActiveEdges(e, active) ==
    SelectSeq(e.edges, LAMBDA d : d.source \in active /\ d.target \in active)

\* The force sums of steps 1-5 put NaN into the velocity component v of the
\* active node n: v is not a number and a term is added to it; a spring of
\* n has an endpoint without position (dx = tgt.x - src.x); the centroid of
\* free mode is taken over a node without position; the radial force is
\* computed from the node's own position. Repulsion and collision replace
\* a NaN distance (dx = b.x - a.x || 0.001). unplaced are the active nodes
\* without position, springs the active edges.
Poisoned(v, n, layout, count, unplaced, springs) ==
    \/ ~IsNumber(v) /\ (count >= 2 \/ layout \in {"free", "radial"})
    \/ \E i \in DOMAIN springs :
        /\ n \in {springs[i].source, springs[i].target}
        /\ \/ {springs[i].source, springs[i].target} \cap unplaced # {}
           \/ ~IsNumber(v)
    \/ layout = "free" /\ unplaced # {}
    \/ layout = "radial" /\ n \in unplaced

\* Steps 1-5 of _applyForces for one active node: what the force sums leave
\* in a velocity component v. Repulsion (and collision) adds a non-zero
\* term for every pair of active nodes; with a single active node the
\* centering force is (n.x - cx) = 0; the radial force of a node is zero
\* only for the depth-0 node at the origin.
Accelerated(v, n, e, count) ==
    IF count >= 2 THEN Float
    ELSE IF e.mode = "radial"
            /\ ~(e.obj[n]._depth = 0 /\ e.body[n].x = 0 /\ e.body[n].y = 0) THEN Float
    ELSE v

\* n.vx *= 0.7
Damped(v) == IF ~IsNumber(v) THEN NaN ELSE IF v = 0 THEN 0 ELSE Float

\* n.x += Utils.clamp(n.vx, -20, 20)
Moved(x, v) ==
    IF ~IsNumber(x) \/ ~IsNumber(v) THEN NaN
    ELSE IF v = 0 /\ x # Nil THEN x
    ELSE Float

\* Mutant of Snapped: the velocity is left as it is.
SnappedAtSpeed(b) == [b EXCEPT !.x = b.fx, !.y = b.fy]

\* The node after a tick that snaps it to its pin.
Snapped(b) == [b EXCEPT !.x = b.fx, !.y = b.fy, !.vx = 0, !.vy = 0]

\* Step 6 for a node that is not pinned, from what steps 1-5 left in its
\* velocity: damping and integration.
Integrated(b, vx, vy) ==
    [b EXCEPT !.vx = Damped(vx), !.vy = Damped(vy),
              !.x = Moved(b.x, Damped(vx)),
              !.y = Moved(b.y, Damped(vy))]

\* The force sums of a node whose velocity holds vx, vy before the tick
Forced(vx, vy, n, e, count, unplaced, springs) ==
    <<IF Poisoned(vx, n, e.mode, count, unplaced, springs) THEN NaN
      ELSE Accelerated(vx, n, e, count),
      IF Poisoned(vy, n, e.mode, count, unplaced, springs) THEN NaN
      ELSE Accelerated(vy, n, e, count)>>

\* _applyForces() on the active nodes: in strict mode the force sums 1-2
\* go into the velocities, pinned nodes are snapped and the method returns;
\* otherwise step 6 snaps the pinned nodes and integrates the rest.
ForcesOn(e, active, unplaced, springs) ==
    [e EXCEPT !.body =
        [n \in DOMAIN e.body |->
            LET b == e.body[n]
            IN  IF n \notin active THEN b
                ELSE IF IsPinned(b) THEN Snapped(b)
                ELSE CHOOSE moved \in
                        {IF e.mode = "strict" THEN [b EXCEPT !.vx = v[1], !.vy = v[2]]
                         ELSE Integrated(b, v[1], v[2]) :
                            v \in {Forced(b.vx, b.vy, n, e, Cardinality(active),
                                          unplaced, springs)}} : TRUE]]

\* _applyForces(): const activeNodes = this._getActiveNodes(); const
\* activeEdges = this._getActiveEdges(activeNodes); then the force sums.
_applyForces(e) ==
    CHOOSE applied \in
        {ForcesOn(e, active, {m \in active : Unplaced(e.body[m])},
                  _getActiveEdges(e, active)) :
            active \in {Range(_getActiveNodes(e))}} : TRUE

\* Mutant of Decay: the energy is multiplied by (1 + alphaDecay).
DecayUp(a) == a + ((a * alphaDecay) \div 1000)

\* this.alpha *= (1 - this.cfg.alphaDecay), rounded down to 10^-8
Decay(a) == a - ((a * alphaDecay + 999) \div 1000)

\* this._raf = requestAnimationFrame(...): one more frame is requested from
\* the host; a handle that is overwritten while its frame is still requested
\* leaves a frame nobody can cancel.
requestAnimationFrame(e) ==
    [e EXCEPT !._raf = "pending",
              !.sched.orphans = IF e._raf = "pending" THEN @ + 1 ELSE @]

\* if (this.onTick) this.onTick(this.nodes, true)
onTickFinal(e) ==
    [e EXCEPT !.log.finals = IF @ < 2 THEN @ + 1 ELSE @,
              !.log.runningAtFinal = @ \/ e.running,
              !.log.last = "final"]

\* if (this.onTick) this.onTick(this.nodes, false)
onTickStep(e) ==
    [e EXCEPT !.log.ticks = @ + 1,
              !.log.stepAfterFinal = @ \/ e.log.finals > 0,
              !.log.last = "step"]

\* if (!this.running || this.alpha < this.cfg.alphaMin)
Stops(e) == ~e.running \/ e.alpha < alphaMin

\* Mutant of TickFinal: the final callback comes before running = false.
TickFinalCallbackFirst(e) == [onTickFinal(e) EXCEPT !.running = FALSE]

\* _tick(), the branch that stops: running = false, final onTick, return
TickFinal(e) == onTickFinal([e EXCEPT !.running = FALSE])

\* _tick(), the branch that goes on, up to the onTick call
TickForces(e) == onTickStep([_applyForces(e) EXCEPT !.alpha = Decay(e.alpha)])

\* _tick()
_tick(e) == IF Stops(e) THEN TickFinal(e) ELSE requestAnimationFrame(TickForces(e))

\* Mutant of start: the engine is marked running but no tick is made.
startWithoutTick(e) == IF e.running THEN e ELSE [e EXCEPT !.running = TRUE]

\* start(): a run begins; a _tick that starts while another _tick
\* activation is in its callback overlaps it.
start(e) ==
    IF e.running THEN e
    ELSE _tick([e EXCEPT !.running = TRUE,
                         !.sched.overlap = @ \/ e.sched.inCallback # "no",
                         !.log.finals = 0, !.log.stepAfterFinal = FALSE,
                         !.log.runningAtFinal = FALSE])

\* Mutant of stop: the requested frame is not cancelled.
stopWithoutCancel(e) == [e EXCEPT !.running = FALSE]

\* stop(): if (this._raf) { cancelAnimationFrame(this._raf); this._raf = null; }
stop(e) == [e EXCEPT !.running = FALSE, !._raf = "null"]

\* reheat(alpha)
reheat(e, a) ==
    LET e1 == [e EXCEPT !.alpha = a,
                        !.obj = _calcTreeDepths(e.nodes, e.edges, e.obj),
                        !.log.ticks = 0,
                        !.log.given = a]
    IN  IF ~e1.running THEN start(e1) ELSE e1

\* setMode(mode)
setMode(e, m) ==
    reheat([e EXCEPT !.mode = m, !.obj = _calcTreeDepths(e.nodes, e.edges, e.obj)],
           SetModeEnergy)

\* hasPos of applyStrictLayout: n.x != null && n.y != null && !(n.x === 0 && n.y === 0)
hasPos(b) ==
    /\ b.x # Undefined /\ b.x # Nil
    /\ b.y # Undefined /\ b.y # Nil
    /\ ~(b.x = 0 /\ b.y = 0)

\* Mutant of StrictPosition: the siblings are not centred around the axis.
StrictPositionUncentred(b, a) ==
    [b EXCEPT !.x = a._depth * hStep, !.y = a._vIndex * vStep, !.vx = 0, !.vy = 0]

\* The loop body of applyStrictLayout: targetX, targetY, zero velocity
StrictPosition(b, a) ==
    LET vCount == IF a._vCount = 0 THEN 1 ELSE a._vCount
        spread == (vCount - 1) * vStep
    IN  [b EXCEPT !.x = a._depth * hStep,
                  !.y = (a._vIndex * vStep) - (spread \div 2),
                  !.vx = 0, !.vy = 0]

\* Mutant of applyStrictLayout: onlyUnpositioned skips no node at all.
applyStrictLayoutEveryNode(e, onlyUnpositioned) ==
    IF Len(e.nodes) = 0 THEN e
    ELSE LET o == _calcTreeDepths(e.nodes, e.edges, e.obj)
         IN  [e EXCEPT !.obj = o,
                       !.body = [n \in DOMAIN e.body |->
                                    IF n \notin Range(e.nodes) THEN e.body[n]
                                    ELSE StrictPosition(e.body[n], o[n])]]

\* applyStrictLayout(opts)
applyStrictLayout(e, onlyUnpositioned) ==
    IF Len(e.nodes) = 0 THEN e
    ELSE LET o == _calcTreeDepths(e.nodes, e.edges, e.obj)
         IN  [e EXCEPT !.obj = o,
                       !.body = [n \in DOMAIN e.body |->
                                    IF n \notin Range(e.nodes) THEN e.body[n]
                                    ELSE IF onlyUnpositioned /\ hasPos(e.body[n])
                                    THEN e.body[n]
                                    ELSE StrictPosition(e.body[n], o[n])]]

\* init(nodes, edges, mode, onTick): the node objects get random velocities
\* and, where x / y is undefined, random positions; alpha = 1; the
\* annotations are computed; strict mode lays the nodes out.
init(e, m) ==
    LET e1 == [e EXCEPT
                !.body = [n \in DOMAIN e.body |->
                            [e.body[n] EXCEPT
                                !.vx = Float, !.vy = Float,
                                !.x = IF @ # Undefined THEN @ ELSE Float,
                                !.y = IF @ # Undefined THEN @ ELSE Float]],
                !.alpha = AlphaOne,
                !.mode = m,
                !.log.ticks = 0,
                !.obj = _calcTreeDepths(e.nodes, e.edges, e.obj)]
    IN  IF m = "strict" THEN applyStrictLayout(e1, FALSE) ELSE e1

\* --------------------------------------------------------- specification
\* The ids an input of k nodes may name: the k ids of the array and, while
\* the bound allows, one id that is not in the array (an unknown id is only
\* ever tested for membership in the array).
InputIds(k, max) == 1..(IF k < max THEN k + 1 ELSE max)

\* Inputs of the store: k nodes with any parentId (null, a node of the array,
\* itself, or an id that is not in the array) and any edge array, endpoints
\* unknown to the array, self loops, cycles and duplicates included.
StoreNodeObjects(k) ==
    {[i \in 1..k |-> NewNode(p[i], i)] :
        p \in [1..k -> {Null} \cup InputIds(k, MaxNodes)]}

EdgeArrays(ids, n) ==
    {[i \in DOMAIN st |-> InputEdge(i, st[i][1], st[i][2])] :
        st \in SeqsUpTo(ids \X ids, n)}

InitStore ==
    /\ \E k \in 0..MaxNodes :
        /\ nodes = [i \in 1..k |-> i]
        /\ obj \in StoreNodeObjects(k)
        /\ edges \in EdgeArrays(InputIds(k, MaxNodes), MaxEdges)
    /\ _nodes = <<>>
    /\ _edges = <<>>
    /\ fixed = Undefined
    /\ argEdges = <<>>
    /\ pc = "new"
    /\ calc = NoCalc
    /\ EngineLiteral
    /\ NoListeners
    /\ NotAwaiting

\* App._loadGraph: graphStore.loadGraph(this._nodes, this._edges)
LoadGraph ==
    /\ pc = "new"
    /\ LET result == _ensureGraphIntegrity(nodes, edges, obj)
       IN  /\ _nodes' = nodes
           /\ _edges' = result.edges
           /\ fixed' = result.fixed
    /\ argEdges' = edges
    /\ pc' = "loaded"
    /\ UNCHANGED <<nodes, edges, obj, calc, engineVars, observerVars, asyncVars>>

\* The node arrays a collaborator hands to the next refresh: the current
\* array, or the array with one node left out (the node is destroyed by
\* being excluded from the next call).
LeaveOut(ns) ==
    {ns} \cup {SelectSeq(ns, LAMBDA n : n # x) : x \in Range(ns)}

\* App._ensureGraphIntegrity: graphStore.refreshGraph(this._nodes, this._edges)
\* with the arrays the app holds, then this._nodes = graphStore.nodes and
\* this._edges = graphStore.edges.
RefreshGraph ==
    /\ pc \in {"loaded", "refreshed"}
    /\ \E ns \in LeaveOut(nodes) :
        LET result == _ensureGraphIntegrity(ns, edges, obj)
        IN  /\ nodes' = ns
            /\ _nodes' = ns
            /\ _edges' = result.edges
            /\ edges' = result.edges
            /\ fixed' = result.fixed
    /\ argEdges' = edges
    /\ pc' = "refreshed"
    /\ UNCHANGED <<obj, calc, engineVars, observerVars, asyncVars>>

NextStore == LoadGraph \/ RefreshGraph

SpecStore == InitStore /\ [][NextStore]_vars

\* ------------------------------------------------ GraphStore properties
StoreRepaired == pc \in {"loaded", "refreshed"}

EdgePair(e) == <<e.source, e.target>>

\* The nodes of ns no edge of es points to.
WithoutIncoming(ns, es) ==
    {n \in Range(ns) : \A i \in DOMAIN es : es[i].target # n}

\* The nodes reachable from the set S along edges, source to target.
RECURSIVE ReachableFrom(_, _)
ReachableFrom(S, es) ==
    LET step == S \cup {es[i].target : i \in {j \in DOMAIN es : es[j].source \in S}}
    IN  IF step = S THEN S ELSE ReachableFrom(step, es)

\* C1 (as claimed): after loadGraph on a non-empty node array exactly one
\* node has no incoming edge in the store's edge set and every other node is
\* reachable from it along the edges.
C1_SingleRootReachesAll ==
    (pc = "loaded" /\ Len(_nodes) > 0) =>
        \E r \in Range(_nodes) :
            /\ WithoutIncoming(_nodes, _edges) = {r}
            /\ Range(_nodes) \subseteq ReachableFrom({r}, _edges)

\* The first edge of the array es that has the (source, target) pair of e.
FirstOfPair(es, e) ==
    es[CHOOSE i \in DOMAIN es :
            /\ EdgePair(es[i]) = EdgePair(e)
            /\ \A j \in 1..(i - 1) : EdgePair(es[j]) # EdgePair(e)]

EndsKnown(e, ns) == e.source \in Range(ns) /\ e.target \in Range(ns)

\* C2: after every loadGraph / refreshGraph the store's edge list, synthesized
\* edges included, holds at most one edge per ordered (source, target) pair,
\* and of the input edges of one pair (between nodes of the array) the one
\* that survives is the first in array order.
C2_OneEdgePerPairFirstKept ==
    StoreRepaired =>
        /\ \A i, j \in DOMAIN _edges :
                i # j => EdgePair(_edges[i]) # EdgePair(_edges[j])
        /\ \A i \in DOMAIN argEdges :
                EndsKnown(argEdges[i], _nodes) =>
                    /\ FirstOfPair(argEdges, argEdges[i]) \in Range(_edges)
                    /\ (argEdges[i] \in Range(_edges)
                            => argEdges[i] = FirstOfPair(argEdges, argEdges[i]))

\* C2 witness: a load whose input held the same pair twice, with another edge
\* in between, and whose repair also synthesized an edge.
C2_Witness ==
    /\ pc = "loaded"
    /\ \E i, j \in DOMAIN argEdges :
        /\ i + 1 < j
        /\ EdgePair(argEdges[i]) = EdgePair(argEdges[j])
        /\ EndsKnown(argEdges[i], _nodes)
        /\ argEdges[i] \in Range(_edges)
    /\ \E m \in DOMAIN _edges : _edges[m].id[1] = "syn"

\* C3: after every loadGraph / refreshGraph both ends of every edge of the
\* store are ids of nodes of the store's current node array (so an edge that
\* points to a node left out of the new array is gone).
C3_EdgeEndsAreNodes ==
    StoreRepaired => \A i \in DOMAIN _edges : EndsKnown(_edges[i], _nodes)

\* C3 witness: a refresh whose node array left out a node that the edge array
\* handed in still pointed to, while other edges survived.
C3_Witness ==
    /\ pc = "refreshed"
    /\ \E i \in DOMAIN argEdges :
        /\ ~EndsKnown(argEdges[i], _nodes)
        /\ {argEdges[i].source, argEdges[i].target} \subseteq DOMAIN obj
    /\ \E m \in DOMAIN _edges : _edges[m] \in Range(argEdges)

\* C4 (as claimed): after loadGraph / refreshGraph every node is the target
\* of at most one edge.
C4_AtMostOneParent ==
    StoreRepaired =>
        \A n \in Range(_nodes) :
            Cardinality({i \in DOMAIN _edges : _edges[i].target = n}) <= 1

\* D has no incident edge in the input and its parentId names another node
\* of the array.
C5_Dangling(D) ==
    /\ \A i \in DOMAIN edges : edges[i].source # D /\ edges[i].target # D
    /\ obj[D].parentId \in Range(nodes) \ {D}

C5_Reconnected(D) ==
    /\ \E m \in DOMAIN _edges : EdgePair(_edges[m]) = <<obj[D].parentId, D>>
    /\ fixed >= 1

\* Some node that stands before array position d has no incoming input edge
\* from a node of the array: the node at d is then not the one the repair
\* takes as root.
C5_UntargetedBefore(d) ==
    \E b \in 1..(d - 1) :
        \A i \in DOMAIN edges :
            EndsKnown(edges[i], nodes) => edges[i].target # nodes[b]

\* C5 (as claimed): for every such node D, wherever it stands in the array,
\* after loadGraph the store holds an edge parentId -> D and fixed >= 1.
C5_ReconnectedAnywhere ==
    pc = "loaded" =>
        \A d \in DOMAIN nodes : C5_Dangling(nodes[d]) => C5_Reconnected(nodes[d])

\* C5 (amended): the same for every such node D that is not the first node of
\* the array without an incoming edge (the node the repair takes as root).
C5_ReconnectedUnlessRoot ==
    pc = "loaded" =>
        \A d \in DOMAIN nodes :
            (C5_Dangling(nodes[d]) /\ C5_UntargetedBefore(d))
                => C5_Reconnected(nodes[d])

\* C5 witness: a dangling node in the middle of the array whose parent stands
\* after it and is not the root the repair picked.
C5_Witness ==
    /\ pc = "loaded"
    /\ \E d \in DOMAIN nodes :
        /\ C5_Dangling(nodes[d]) /\ C5_UntargetedBefore(d)
        /\ d < Len(nodes)
        /\ obj[nodes[d]].parentId = nodes[d + 1]
        /\ \E m \in DOMAIN _edges : _edges[m] = SynthEdge(nodes[d + 1], nodes[d])

\* Inputs of the calculator: k nodes with any names and any edge array
\* (not repaired: ForceLayout.init gets the arrays as the collaborator built
\* them). _calcTreeDepths reads no parentId, so none is drawn.
TreeNodeObjects(k) ==
    {[i \in 1..k |-> NewNode(Null, nm[i])] : nm \in [1..k -> 1..MaxNames]}

InitDepth ==
    /\ \E k \in 0..TreeMaxNodes :
        /\ nodes = [i \in 1..k |-> i]
        /\ obj \in TreeNodeObjects(k)
        /\ edges \in EdgeArrays(InputIds(k, TreeMaxNodes), TreeMaxEdges)
    /\ _nodes = <<>>
    /\ _edges = <<>>
    /\ fixed = Undefined
    /\ argEdges = <<>>
    /\ pc = "init"
    /\ calc = NoCalc
    /\ EngineLiteral
    /\ NoListeners
    /\ NotAwaiting

\* ForceLayout.init / reheat / setMode: this._calcTreeDepths(this.nodes,
\* this.edges) on the arrays the engine holds; it may run again at any time.
CalcTreeDepths ==
    /\ pc \in {"init", "laidOut"}
    /\ obj' = _calcTreeDepths(nodes, edges, obj)
    /\ pc' = "laidOut"
    /\ UNCHANGED <<nodes, edges, _nodes, _edges, fixed, argEdges, calc, engineVars, observerVars, asyncVars>>

\* App.handleNodeMove up to its first await. The optimistic topology update:
\* every incoming edge of srcNode is removed, the edge targetFolder -> srcNode
\* is pushed and srcNode.parentId is set. Then _applyGraph: the store repairs
\* the arrays (refreshGraph), the app and the engine take the store's arrays,
\* and reheat recomputes the annotations. The renderer offers a move only
\* onto another node.
MoveNode(srcNode, targetFolder) ==
    /\ pc = "laidOut"
    /\ srcNode # targetFolder
    /\ LET moved == Append(SelectSeq(edges, LAMBDA e : e.target # srcNode),
                           SynthEdge(targetFolder, srcNode))
           reparented == [obj EXCEPT ![srcNode].parentId = targetFolder]
           result == _ensureGraphIntegrity(nodes, moved, reparented)
       IN  /\ argEdges' = moved
           /\ _nodes' = nodes
           /\ _edges' = result.edges
           /\ edges' = result.edges
           /\ fixed' = result.fixed
           /\ obj' = _calcTreeDepths(nodes, result.edges, reparented)
    /\ pc' = "moved"
    /\ UNCHANGED <<nodes, calc, engineVars, observerVars, asyncVars>>

NextDepth ==
    \/ CalcTreeDepths
    \/ \E srcNode \in Range(nodes), targetFolder \in Range(nodes) :
            MoveNode(srcNode, targetFolder)

SpecDepth == InitDepth /\ [][NextDepth]_vars

\* ------------------------------------------- _calcTreeDepths properties
\* The annotations were computed for the arrays the engine holds.
Annotated == pc \in {"laidOut", "moved"} /\ Len(nodes) > 0

\* The (source, target) pairs of the edges between nodes of the array.
KnownPairs(ns, es) ==
    {EdgePair(es[i]) : i \in {j \in DOMAIN es : EndsKnown(es[j], ns)}}

\* The roots: the nodes without an incoming edge between known nodes, or the
\* first node of the array when there is no such node.
RootSet(ns, es) ==
    LET free == {n \in Range(ns) : \A q \in KnownPairs(ns, es) : q[2] # n}
    IN  IF free = {} THEN {ns[1]} ELSE free

\* The nodes at the end of a path of exactly d edges that starts in S.
RECURSIVE ReachIn(_, _, _)
ReachIn(S, pairs, d) ==
    IF d = 0 THEN S
    ELSE ReachIn({q[2] : q \in {r \in pairs : r[1] \in S}}, pairs, d - 1)

\* The lengths of the paths from a root to n (a shortest one has fewer edges
\* than there are nodes).
PathLengths(n, ns, es) ==
    {d \in 0..(Len(ns) - 1) : n \in ReachIn(RootSet(ns, es), KnownPairs(ns, es), d)}

Reached(n, ns, es) == PathLengths(n, ns, es) # {}

MinHops(n, ns, es) ==
    CHOOSE d \in PathLengths(n, ns, es) : \A e \in PathLengths(n, ns, es) : d <= e

\* C6 (as claimed): after a move has taken the graph through the store's
\* repair and the depth calculation, every edge (source, target) of the store
\* has _depth(target) = _depth(source) + 1.
C6_DepthStepsByOne ==
    pc = "moved" =>
        \A i \in DOMAIN _edges :
            obj[_edges[i].target]._depth = obj[_edges[i].source]._depth + 1

\* C7: after _calcTreeDepths every root has _depth 0 and every node reachable
\* from a root has _depth equal to the least number of edges on a path from
\* a root to it.
C7_DepthIsShortestHops ==
    Annotated =>
        /\ \A r \in RootSet(nodes, edges) : obj[r]._depth = 0
        /\ \A n \in Range(nodes) :
                Reached(n, nodes, edges) => obj[n]._depth = MinHops(n, nodes, edges)

\* C7 witness: a node with two incoming edges from nodes at different depths,
\* so that the shorter of two paths decides.
C7_Witness ==
    /\ Annotated
    /\ \E i, j \in DOMAIN edges :
        /\ EndsKnown(edges[i], nodes) /\ EndsKnown(edges[j], nodes)
        /\ edges[i].target = edges[j].target
        /\ obj[edges[i].source]._depth = 0
        /\ obj[edges[j].source]._depth = 1
        /\ obj[edges[i].target]._depth = 1

\* The annotation fields of the nodes of the array.
Annotations(ns, o) ==
    [n \in Range(ns) |-> <<o[n]._depth, o[n]._vIndex, o[n]._vCount, o[n]._maxDepth>>]

\* The node objects as they are before any annotation was written.
Unannotated(o) == [n \in DOMAIN o |-> NewNode(o[n].parentId, o[n].name)]

\* C8: the annotations depend only on the current ids, names and edges: what
\* _calcTreeDepths left on the nodes (run once, run again on unchanged input,
\* or run after a move on nodes that carry the annotations of the structure
\* before the move) is what it computes for nodes that carry no annotation.
C8_AnnotationsIgnoreStaleValues ==
    Annotated =>
        Annotations(nodes, obj)
            = Annotations(nodes, _calcTreeDepths(nodes, edges, Unannotated(obj)))

\* C8 witness: a move after which a node has another depth than it had under
\* its previous parent; the state before the move is the one the calculator
\* started from.
C8_Witness ==
    /\ pc = "moved"
    /\ \E n \in Range(nodes) :
        /\ obj[n].parentId # Null
        /\ \E i \in DOMAIN argEdges : argEdges[i] = SynthEdge(obj[n].parentId, n)
        /\ obj[n]._depth >= 2
        /\ obj[obj[n].parentId]._depth = obj[n]._depth - 1

AtDepth(d) == {n \in Range(nodes) : obj[n]._depth = d}

\* The scenario: root, A and B under root, C under A.
ScenarioInput ==
    /\ nodes = <<1, 2, 3, 4>>
    /\ Len(edges) = 3
    /\ {EdgePair(edges[i]) : i \in DOMAIN edges} = {<<1, 2>>, <<1, 3>>, <<2, 4>>}

\* C9: after _calcTreeDepths, for each depth d that holds k nodes the _vIndex
\* values at depth d are exactly 0..k-1, none used twice, and _vCount of each
\* of these nodes is k; in the scenario the depths are 0, 1, 1, 2 and the
\* counts are 2 for A and B and 1 for C.
C9_IndexesFillEachDepth ==
    Annotated =>
        /\ \A n \in Range(nodes) :
            LET level == AtDepth(obj[n]._depth)
            IN  /\ {obj[m]._vIndex : m \in level} = 0..(Cardinality(level) - 1)
                /\ \A m \in level : m # n => obj[m]._vIndex # obj[n]._vIndex
                /\ obj[n]._vCount = Cardinality(level)
        /\ ScenarioInput =>
            /\ [n \in 1..4 |-> obj[n]._depth] = <<0, 1, 1, 2>>
            /\ obj[2]._vCount = 2 /\ obj[3]._vCount = 2 /\ obj[4]._vCount = 1

\* C9 witness: the scenario, annotated.
C9_Witness == Annotated /\ ScenarioInput

\* The largest element of a non-empty set of integers.
Largest(S) == CHOOSE d \in S : \A e \in S : e <= d

\* C10: after _calcTreeDepths on a non-empty array every node has
\* _depth >= 0, every node BFS did not reach has _depth = the largest depth
\* BFS assigned + 1, and _maxDepth of every node is the largest _depth.
C10_NoNodeUnassigned ==
    Annotated =>
        LET reached == {n \in Range(nodes) : Reached(n, nodes, edges)}
        IN  /\ \A n \in Range(nodes) : obj[n]._depth >= 0
            /\ \A n \in Range(nodes) \ reached :
                obj[n]._depth = Largest({MinHops(m, nodes, edges) : m \in reached}) + 1
            /\ \A n \in Range(nodes) :
                obj[n]._maxDepth = Largest({obj[m]._depth : m \in Range(nodes)})

\* C10 witness: BFS left a node unreached although it reached depth 1.
C10_Witness ==
    /\ Annotated
    /\ \E n \in Range(nodes) : ~Reached(n, nodes, edges) /\ obj[n]._depth = 2

\* --------------------- _calcTreeDepths, one loop iteration at a time
\* Inputs of the stepwise run: at most StepMaxNodes nodes and StepMaxEdges
\* edges.
StepMaxNodes == 3
StepMaxEdges == 3

InitSteps ==
    /\ \E k \in 0..StepMaxNodes :
        /\ nodes = [i \in 1..k |-> i]
        /\ obj \in TreeNodeObjects(k)
        /\ edges \in EdgeArrays(InputIds(k, StepMaxNodes), StepMaxEdges)
    /\ _nodes = <<>>
    /\ _edges = <<>>
    /\ fixed = Undefined
    /\ argEdges = <<>>
    /\ pc = "called"
    /\ calc = NoCalc
    /\ EngineLiteral
    /\ NoListeners
    /\ NotAwaiting

\* The closure of visit(): what it reads besides the nodes' own fields.
Closure == [ns |-> nodes, es |-> edges, depth |-> calc.depth, o |-> obj]

\* Entry of _calcTreeDepths up to the while loop: the early return on an
\* empty array, STEP 0 (reset), STEP 1-2 (adjacency, roots) and the loop
\* that queues the roots.
CalcBegin ==
    /\ pc = "called"
    /\ IF Len(nodes) = 0
       THEN pc' = "done" /\ UNCHANGED <<obj, calc, observerVars, asyncVars>>
       ELSE LET reset == ResetAnnotations(nodes, obj)
                st == BfsStart(nodes, edges, [n \in DOMAIN obj |-> reset[n]._depth])
            IN  /\ obj' = reset
                /\ calc' = [depth |-> st.depth, bfsVisited |-> st.bfsVisited,
                            queue |-> st.queue,
                            visited |-> {n \in Range(nodes) : reset[n]._visited},
                            vIndex |-> [n \in DOMAIN obj |-> reset[n]._vIndex],
                            levels |-> <<>>, stack |-> <<>>, swept |-> FALSE,
                            dequeued |-> <<>>, visits |-> <<>>]
                /\ pc' = "bfs"
    /\ UNCHANGED <<nodes, edges, _nodes, _edges, fixed, argEdges, engineVars, observerVars, asyncVars>>

\* One iteration of while (queue.length > 0): curr = queue.shift() and the
\* loop over its children.
BfsStep ==
    /\ pc = "bfs"
    /\ calc.queue # <<>>
    /\ LET curr == Head(calc.queue)
           st == BfsChildren(Children(curr, nodes, edges), curr,
                             [depth |-> calc.depth, bfsVisited |-> calc.bfsVisited,
                              queue |-> Tail(calc.queue)])
       IN  calc' = [calc EXCEPT !.depth = st.depth, !.bfsVisited = st.bfsVisited,
                                !.queue = st.queue,
                                !.dequeued = Append(calc.dequeued, curr)]
    /\ UNCHANGED <<nodes, edges, obj, _nodes, _edges, fixed, argEdges, pc, engineVars, observerVars, asyncVars>>

\* The queue is empty: STEP 4 (fallback), then roots.sort(...) and the loop
\* over the sorted roots begins.
BfsEnd ==
    /\ pc = "bfs"
    /\ calc.queue = <<>>
    /\ calc' = [calc EXCEPT !.depth = Fallback(nodes, calc.depth),
                            !.stack = <<SortByName(Roots(nodes, edges), obj)>>]
    /\ pc' = "dfs"
    /\ UNCHANGED <<nodes, edges, obj, _nodes, _edges, fixed, argEdges, engineVars, observerVars, asyncVars>>

\* The body of visit(nodeId) up to its loop over the children: the state
\* after the node was marked and indexed, and the children to visit next.
VisitEnter(nodeId, st, c) ==
    LET depth == c.depth[nodeId]
        index == LevelOf(st.levels, depth)
        st1 == [visited |-> st.visited \cup {nodeId},
                vIndex |-> [st.vIndex EXCEPT ![nodeId] = index],
                levels |-> [d \in DOMAIN st.levels \cup {depth} |->
                               IF d = depth THEN index + 1 ELSE st.levels[d]]]
    IN  [st |-> st1,
         childIds |-> SortByName(SelectSeq(Children(nodeId, c.ns, c.es),
                                           LAMBDA ch : ch \notin st1.visited), c.o)]

\* One iteration of a for loop that calls visit(): the innermost loop still
\* running is the last frame of the stack. A loop that has no item left
\* returns to its caller; otherwise visit() either returns at once (unknown
\* or visited node) or marks the node and starts the loop over its children.
DfsStep ==
    /\ pc = "dfs"
    /\ calc.stack # <<>>
    /\ LET top == Len(calc.stack)
           frame == calc.stack[top]
           below == SubSeq(calc.stack, 1, top - 1)
       IN  IF frame = <<>>
           THEN calc' = [calc EXCEPT !.stack = below]
           ELSE LET nodeId == Head(frame)
                    rest == below \o <<Tail(frame)>>
                IN  IF nodeId \notin Range(nodes) \/ nodeId \in calc.visited
                    THEN calc' = [calc EXCEPT !.stack = rest]
                    ELSE LET entered == VisitEnter(nodeId,
                                            [visited |-> calc.visited,
                                             vIndex |-> calc.vIndex,
                                             levels |-> calc.levels], Closure)
                         IN  calc' = [calc EXCEPT
                                        !.visited = entered.st.visited,
                                        !.vIndex = entered.st.vIndex,
                                        !.levels = entered.st.levels,
                                        !.stack = rest \o <<entered.childIds>>,
                                        !.visits = Append(calc.visits, nodeId)]
    /\ UNCHANGED <<nodes, edges, obj, _nodes, _edges, fixed, argEdges, pc, engineVars, observerVars, asyncVars>>

\* The loop over the sorted roots is over: for (const n of nodes)
\* if (!n._visited) visit(n.id).
DfsSweep ==
    /\ pc = "dfs"
    /\ calc.stack = <<>>
    /\ ~calc.swept
    /\ calc' = [calc EXCEPT !.stack = <<nodes>>, !.swept = TRUE]
    /\ UNCHANGED <<nodes, edges, obj, _nodes, _edges, fixed, argEdges, pc, engineVars, observerVars, asyncVars>>

\* STEP 6 and the return: the annotations are on the node objects.
CalcEnd ==
    /\ pc = "dfs"
    /\ calc.stack = <<>>
    /\ calc.swept
    /\ obj' = [n \in DOMAIN obj |->
                IF n \in Range(nodes)
                THEN [obj[n] EXCEPT
                        !._depth = calc.depth[n],
                        !._vIndex = calc.vIndex[n],
                        !._visited = n \in calc.visited,
                        !._vCount =
                            IF DepthCount(calc.depth[n], nodes, calc.depth, calc.vIndex) = 0
                            THEN 1
                            ELSE DepthCount(calc.depth[n], nodes, calc.depth, calc.vIndex),
                        !._maxDepth = MaxDepthOf(nodes, calc.depth)]
                ELSE obj[n]]
    /\ pc' = "done"
    /\ UNCHANGED <<nodes, edges, _nodes, _edges, fixed, argEdges, calc, engineVars, observerVars, asyncVars>>

NextSteps == CalcBegin \/ BfsStep \/ BfsEnd \/ DfsStep \/ DfsSweep \/ CalcEnd

\* The activation runs on the single UI thread and is never suspended: a
\* loop iteration that can be taken is taken.
SpecSteps == InitSteps /\ [][NextSteps]_vars /\ WF_vars(NextSteps)

\* ----------------------------------------- termination of _calcTreeDepths
NoRepeat(q) == \A i, j \in DOMAIN q : q[i] = q[j] => i = j

\* The number of node ids the loops on the stack still have to go through.
RECURSIVE Pending(_)
Pending(stack) ==
    IF stack = <<>> THEN 0 ELSE Len(Head(stack)) + Pending(Tail(stack))

\* What the DFS can still do: every visit that marks a node starts at most
\* one loop of at most Len(edges) children.
DfsVariant ==
    (Len(edges) + 2) * Cardinality(Range(nodes) \ calc.visited)
        + Pending(calc.stack) + Len(calc.stack)
        + (IF calc.swept THEN 0 ELSE Len(nodes) + 2) + 1

DfsVariantMax == (Len(edges) + 2) * Len(nodes) + 2 * Len(nodes) + 4

\* A natural number that every loop iteration of the activation decreases.
CalcVariant ==
    CASE pc = "called" -> DfsVariantMax + Len(nodes) + 2
      [] pc = "bfs" -> DfsVariantMax + 1
                        + Cardinality(Range(nodes) \ calc.bfsVisited) + Len(calc.queue)
      [] pc = "dfs" -> DfsVariant
      [] OTHER -> 0

\* BFS took no node from the queue twice and visit() marked no node twice.
ProcessedOnce ==
    pc \in {"bfs", "dfs"} => NoRepeat(calc.dequeued) /\ NoRepeat(calc.visits)

\* The activation has returned with the annotations of _calcTreeDepths.
Returned ==
    pc = "done" =>
        Annotations(nodes, obj)
            = Annotations(nodes, _calcTreeDepths(nodes, edges, Unannotated(obj)))

\* C11: _calcTreeDepths terminates on every finite input (cycles, self
\* loops, duplicate edges and unknown ids included): BFS dequeues a node at
\* most once and visit() marks a node at most once, every loop iteration
\* decreases a natural number, and the activation returns.
C11_CalcTerminates ==
    /\ [](ProcessedOnce /\ Returned /\ CalcVariant >= 0)
    /\ [][CalcVariant' < CalcVariant]_vars
    /\ <>(pc = "done")

\* C11 witness: the activation returned after BFS met a node that was
\* already visited (a cycle or a second path) and left a node to the sweep.
C11_Witness ==
    /\ pc = "done"
    /\ \E i \in DOMAIN edges :
        /\ EndsKnown(edges[i], nodes)
        /\ obj[edges[i].target]._depth <= obj[edges[i].source]._depth
    /\ \E i \in DOMAIN edges : edges[i].source \notin Range(nodes)
    /\ \E n \in Range(nodes) : ~Reached(n, nodes, edges)

\* ------------------------------------------- the engine's state machine
\* Inputs of the engine: a tree of at most EngineMaxNodes nodes, as the
\* store hands it over (parentId and one edge per non-root node).
EngineMaxNodes == 2

TreeParents(k) ==
    {p \in [1..k -> 0..k] : p[1] = Null /\ \A i \in 2..k : p[i] \in 1..(i - 1)}

TreeEdges(k, p) == [i \in 1..(k - 1) |-> SynthEdge(p[i + 1], i + 1)]

LayoutModes == {"free", "strict", "radial"}

\* The energies callers pass to reheat: 0 (strict-mode refresh), a positive
\* energy below alphaMin, alphaMin, 0.4 (toggleCollapse) and 1.
Energies == {0, alphaMin - 1, alphaMin, 4 * (AlphaOne \div 10), AlphaOne}

InitTree(max) ==
    /\ \E k \in 1..max :
        \E p \in TreeParents(k) :
            /\ nodes = [i \in 1..k |-> i]
            /\ obj = [i \in 1..k |-> NewNode(p[i], i)]
            /\ edges = TreeEdges(k, p)
    /\ _nodes = <<>>
    /\ _edges = <<>>
    /\ fixed = Undefined
    /\ argEdges = <<>>
    /\ calc = NoCalc
    /\ EngineLiteral
    /\ NoListeners
    /\ NotAwaiting

InitEngine == InitTree(EngineMaxNodes) /\ pc = "literal"

\* The state the engine is left in by a call.
Becomes(e) ==
    /\ nodes' = e.nodes
    /\ edges' = e.edges
    /\ obj' = e.obj
    /\ body' = e.body
    /\ mode' = e.mode
    /\ alpha' = e.alpha
    /\ running' = e.running
    /\ _raf' = e._raf
    /\ sched' = e.sched
    /\ onTickLog' = e.log

\* The engine as a call finds it (the history of the previous call's tick
\* is cleared).
Called == [Eng EXCEPT !.log.last = "none"]

\* No _tick activation is suspended in its onTick callback: the call comes
\* from an event handler of its own.
BetweenFrames == sched.inCallback = "no"

\* The host cannot have more than MaxOrphans frames requested that no
\* handle refers to.
MaxOrphans == 1

Schedulable(e) == e.sched.orphans <= MaxOrphans

\* ForceLayout.init(this._nodes, this._edges, this._clusterMode, onTick)
Init(m) ==
    /\ pc = "literal"
    /\ Becomes(init(Called, m))
    /\ pc' = "init"
    /\ UNCHANGED <<_nodes, _edges, fixed, argEdges, calc, observerVars, asyncVars>>

Start ==
    /\ pc # "literal"
    /\ BetweenFrames
    /\ Schedulable(start(Called))
    /\ Becomes(start(Called))
    /\ pc' = "start"
    /\ UNCHANGED <<_nodes, _edges, fixed, argEdges, calc, observerVars, asyncVars>>

Stop ==
    /\ pc # "literal"
    /\ BetweenFrames
    /\ Becomes(stop(Called))
    /\ pc' = "stop"
    /\ UNCHANGED <<_nodes, _edges, fixed, argEdges, calc, observerVars, asyncVars>>

Reheat(a) ==
    /\ pc # "literal"
    /\ BetweenFrames
    /\ Schedulable(reheat(Called, a))
    /\ Becomes(reheat(Called, a))
    /\ pc' = "reheat"
    /\ UNCHANGED <<_nodes, _edges, fixed, argEdges, calc, observerVars, asyncVars>>

SetMode(m) ==
    /\ pc # "literal"
    /\ BetweenFrames
    /\ Schedulable(setMode(Called, m))
    /\ Becomes(setMode(Called, m))
    /\ pc' = "setMode"
    /\ UNCHANGED <<_nodes, _edges, fixed, argEdges, calc, observerVars, asyncVars>>

\* The host runs a requested frame: the one this._raf refers to, or one
\* whose handle was overwritten.
Fired(byHandle) ==
    IF byHandle THEN [Called EXCEPT !._raf = "fired"]
    ELSE [Called EXCEPT !.sched.orphans = @ - 1]

Requested(byHandle) == IF byHandle THEN _raf = "pending" ELSE sched.orphans > 0

\* A frame callback () => this._tick() whose onTick callback calls nothing.
Frame ==
    /\ BetweenFrames
    /\ \E byHandle \in BOOLEAN :
        /\ Requested(byHandle)
        /\ Becomes(_tick(Fired(byHandle)))
    /\ pc' = "frame"
    /\ UNCHANGED <<_nodes, _edges, fixed, argEdges, calc, observerVars, asyncVars>>

NextEngine ==
    \/ \E m \in LayoutModes : Init(m)
    \/ Start
    \/ Stop
    \/ \E a \in Energies : Reheat(a)
    \/ \E m \in LayoutModes : SetMode(m)
    \/ Frame

SpecEngine == InitEngine /\ [][NextEngine]_vars

\* ------------------------------------------------------- energy decay
\* A run nobody disturbs: init, one start() or reheat(a), then the host
\* runs every frame the engine requests.
FirstStart == pc = "init" /\ Start

FirstReheat(a) == pc = "init" /\ Reheat(a)

NextDecay ==
    \/ \E m \in LayoutModes : Init(m)
    \/ FirstStart
    \/ \E a \in Energies : FirstReheat(a)
    \/ Frame

SpecDecay == InitEngine /\ [][NextDecay]_vars /\ WF_vars(Frame)

\* The ticks a run can take: 0.982^292 < 0.005.
TickBound == 292

\* The step is a _tick of the run that applied forces.
Ticked == pc' \in {"start", "frame"} /\ onTickLog'.last = "step"

\* C13: from any energy in (0,1], without reheat or a write to the energy,
\* every tick that applies forces leaves the energy strictly lower (and above
\* zero), a run never takes more than TickBound ticks, and a running engine
\* always ends up idle.
C13_EnergyDecaysToIdle ==
    /\ [][Ticked => (0 < alpha' /\ alpha' < alpha)]_vars
    /\ [](onTickLog.ticks <= TickBound)
    /\ (running ~> ~running)

\* C13 witness: the engine stopped by itself, after at least two ticks of a
\* run that started below energy 1.
C13_Witness ==
    /\ pc = "frame"
    /\ ~running
    /\ onTickLog.last = "final"
    /\ onTickLog.ticks >= 2
    /\ onTickLog.ticks < TickBound - 2
    /\ 0 < alpha /\ alpha < alphaMin

\* ---------------------------------------------------------------- stop
\* A frame is requested from the host and has not been cancelled.
TickScheduled == _raf = "pending" \/ sched.orphans > 0

\* The last call was stop() and nothing has happened since.
Stopped == pc = "stop"

AutoStops == running /\ alpha < alphaMin /\ pc' = "frame"

\* The step calls onTick.
CallsOnTick == onTickLog'.last # "none"

\* C17: a _tick that finds the energy below the threshold calls
\* onTick(nodes, true) once and nothing else, with running already false; in
\* a run no onTick(nodes, false) follows the final call and no second final
\* call is made; an idle engine calls onTick only from start(), reheat() or
\* setMode().
C17_FinalCallbackOnce ==
    /\ [][AutoStops => (/\ onTickLog'.last = "final"
                        /\ onTickLog'.finals = 1
                        /\ onTickLog'.ticks = onTickLog.ticks
                        /\ ~running')]_vars
    /\ [](/\ onTickLog.finals <= 1
          /\ ~onTickLog.stepAfterFinal
          /\ ~onTickLog.runningAtFinal)
    /\ []((onTickLog.finals = 1) => ~running)
    /\ [][(~running /\ CallsOnTick) => pc' \in {"start", "reheat", "setMode"}]_vars

\* C17 witness: a run of several ticks has ended with the final callback.
C17_Witness ==
    /\ pc = "frame"
    /\ onTickLog.last = "final"
    /\ onTickLog.finals = 1
    /\ onTickLog.ticks >= 3
    /\ ~running

\* ------------------------------------------- calls made from onTick
\* The same engine with an onTick callback that calls engine methods: a
\* _tick run by a frame callback is taken in two steps, up to the onTick
\* call and from its return, and the callback may call start(), stop(),
\* reheat() or setMode() in between. (The _tick that start() runs inside
\* such a call is taken as one step.)
ReentrantMaxNodes == 1

InitReentrant == InitTree(ReentrantMaxNodes) /\ pc = "literal"

\* _tick() of a frame callback, up to the point where onTick has been
\* entered.
FrameBegin ==
    /\ BetweenFrames
    /\ \E byHandle \in BOOLEAN :
        /\ Requested(byHandle)
        /\ LET e == Fired(byHandle)
           IN  IF Stops(e)
               THEN Becomes([TickFinal(e) EXCEPT !.sched.inCallback = "final"])
               ELSE Becomes([TickForces(e) EXCEPT !.sched.inCallback = "step"])
    /\ pc' = "onTick"
    /\ UNCHANGED <<_nodes, _edges, fixed, argEdges, calc, observerVars, asyncVars>>

\* What _tick does after onTick(nodes, false) has returned: it requests the
\* next frame; after onTick(nodes, true) it returns.
AfterCallback(e) ==
    IF e.sched.inCallback = "step"
    THEN requestAnimationFrame([e EXCEPT !.sched.inCallback = "no"])
    ELSE [e EXCEPT !.sched.inCallback = "no"]

\* A call made by the onTick callback, leaving the engine as e.
CallbackCalls(e) ==
    /\ ~BetweenFrames
    /\ Schedulable(AfterCallback(e))
    /\ Becomes(e)
    /\ UNCHANGED <<pc, _nodes, _edges, fixed, argEdges, calc, observerVars, asyncVars>>

OnTickStart ==
    /\ sched.inCallback \in {"step", "final"}
    /\ CallbackCalls(start(Eng))

OnTickStop ==
    /\ sched.inCallback \in {"step", "final"}
    /\ CallbackCalls(stop(Eng))

OnTickReheat(a) ==
    /\ sched.inCallback \in {"step", "final"}
    /\ CallbackCalls(reheat(Eng, a))

OnTickSetMode(m) ==
    /\ sched.inCallback \in {"step", "final"}
    /\ CallbackCalls(setMode(Eng, m))

\* onTick returns and _tick runs to its end.
FrameEnd ==
    /\ ~BetweenFrames
    /\ Becomes(AfterCallback(Eng))
    /\ pc' = "frame"
    /\ UNCHANGED <<_nodes, _edges, fixed, argEdges, calc, observerVars, asyncVars>>

\* The energies the callback passes to reheat.
CallbackEnergies == {0, alphaMin}

\* The modes the callers of this specification pass (the schedule does not
\* depend on the mode).
CallbackModes == {"free", "strict"}

NextReentrant ==
    \/ \E m \in CallbackModes : Init(m)
    \/ Start
    \/ Stop
    \/ \E a \in CallbackEnergies : Reheat(a)
    \/ \E m \in CallbackModes : SetMode(m)
    \/ FrameBegin
    \/ OnTickStart
    \/ OnTickStop
    \/ \E a \in CallbackEnergies : OnTickReheat(a)
    \/ \E m \in CallbackModes : OnTickSetMode(m)
    \/ FrameEnd

SpecReentrant == InitReentrant /\ [][NextReentrant]_vars

\* The number of frames requested from the host and not cancelled.
TicksScheduled == sched.orphans + (IF _raf = "pending" THEN 1 ELSE 0)

\* C14 (as claimed): under any interleaving of start(), stop(), reheat(),
\* setMode() and frame callbacks, calls from inside onTick included, at most
\* one tick is scheduled, no _tick starts while another _tick is executing,
\* and whenever no call is in progress the engine is running exactly when a
\* tick is scheduled.
C14_OneTickAtATime ==
    /\ TicksScheduled <= 1
    /\ ~sched.overlap
    /\ BetweenFrames => (running <=> TicksScheduled = 1)

\* ------------------------------------------- the engine and the layout
\* The engine with the collaborators that write to the node objects and to
\* the arrays: the renderer's drag handlers, collapse, the strict-layout
\* reset and a graph refresh that adds a node.
LayoutMaxNodes == 3

\* The ticks the host delivers after the energy was last set by reheat()
\* or init().
LayoutMaxTicks == 2

\* The energies App._applyGraph is called with: 0, just below and at the
\* threshold, 0.5.
LayoutEnergies == {0, alphaMin - 1, alphaMin, 5 * (AlphaOne \div 10)}

\* The world points a drag moves a node to: the origin and another point.
PinPoints == {<<0, 0>>, <<120, 40>>}

InitLayout == InitTree(LayoutMaxNodes - 1) /\ pc = "literal"

StoreUnchanged == UNCHANGED <<_nodes, _edges, fixed, argEdges, calc, observerVars, asyncVars>>

Dragging == {n \in Range(nodes) : IsPinned(body[n])}

\* Renderer mousedown on a visible node: node.fx = node.x; node.fy = node.y;
\* ForceLayout.alpha = 0.3
DragStart(n) ==
    /\ pc # "literal"
    /\ n \in Range(nodes)
    /\ BetweenFrames
    /\ Dragging = {}
    /\ ~isHidden(n, Eng)
    /\ Becomes([Called EXCEPT !.body[n].fx = body[n].x,
                              !.body[n].fy = body[n].y,
                              !.alpha = 3 * (AlphaOne \div 10)])
    /\ pc' = "drag"
    /\ StoreUnchanged

\* Renderer mousemove while dragging: node.fx = start.x + deltaWorldX (and
\* fy); in strict mode node.x = node.fx, node.y = node.fy;
\* ForceLayout.alpha = 0.3
DragMove(n, p) ==
    /\ BetweenFrames
    /\ n \in Dragging
    /\ Becomes([Called EXCEPT
                    !.body[n] = [@ EXCEPT !.fx = p[1], !.fy = p[2],
                                          !.x = IF mode = "strict" THEN p[1] ELSE @,
                                          !.y = IF mode = "strict" THEN p[2] ELSE @],
                    !.alpha = 3 * (AlphaOne \div 10)])
    /\ pc' = "drag"
    /\ StoreUnchanged

\* Renderer mouseup: node.x = node.fx ?? node.x; node.y = node.fy ?? node.y;
\* node.fx = null; node.fy = null; ForceLayout.alpha = 0.1
DragEnd(n) ==
    /\ BetweenFrames
    /\ n \in Dragging
    /\ Becomes([Called EXCEPT
                    !.body[n] = [@ EXCEPT !.x = body[n].fx, !.y = body[n].fy,
                                          !.fx = Nil, !.fy = Nil],
                    !.alpha = AlphaOne \div 10])
    /\ pc' = "drop"
    /\ StoreUnchanged

\* App.toggleCollapse: n.collapsed = !n.collapsed; ForceLayout.reheat(0.4)
ToggleCollapse(n) ==
    /\ pc # "literal"
    /\ n \in Range(nodes)
    /\ BetweenFrames
    /\ Becomes(reheat([Called EXCEPT !.body[n].collapsed = ~body[n].collapsed],
                      4 * (AlphaOne \div 10)))
    /\ pc' = "toggle"
    /\ StoreUnchanged

\* App.resetLayoutToStrict: in strict mode ForceLayout.applyStrictLayout()
ResetLayoutToStrict ==
    /\ pc # "literal"
    /\ BetweenFrames
    /\ mode = "strict"
    /\ Becomes(applyStrictLayout(Called, FALSE))
    /\ pc' = "resetLayout"
    /\ StoreUnchanged

\* A refresh after one node (a fresh object without position) and its edge
\* from a node of the graph were added to the app's arrays, App._applyGraph:
\* store refresh, ForceLayout.nodes / edges = the arrays, reheat(strict ? 0 :
\* a), and in strict mode applyStrictLayout({ onlyUnpositioned: true }).
Added(parent) ==
    LET id == Len(nodes) + 1
        ns == Append(nodes, id)
        o == [i \in 1..id |-> IF i = id THEN NewNode(parent, id) ELSE obj[i]]
    IN  [nodes |-> ns,
         argEdges |-> Append(edges, SynthEdge(parent, id)),
         obj |-> o,
         body |-> [i \in 1..id |-> IF i = id THEN FreshBody ELSE body[i]],
         store |-> _ensureGraphIntegrity(ns, Append(edges, SynthEdge(parent, id)), o)]

AddNode(parent, a) ==
    /\ pc # "literal"
    /\ parent \in Range(nodes)
    /\ BetweenFrames
    /\ Len(nodes) < LayoutMaxNodes
    /\ LET g == Added(parent)
           e1 == [Called EXCEPT !.nodes = g.nodes, !.edges = g.store.edges,
                                !.obj = g.obj, !.body = g.body]
           e2 == reheat(e1, IF mode = "strict" THEN 0 ELSE a)
       IN  /\ Becomes(IF mode = "strict" THEN applyStrictLayout(e2, TRUE) ELSE e2)
           /\ _nodes' = g.nodes
           /\ _edges' = g.store.edges
           /\ fixed' = g.store.fixed
           /\ argEdges' = g.argEdges
    /\ pc' = "applyGraph"
    /\ UNCHANGED <<calc, observerVars, asyncVars>>

\* A frame callback, while the host still delivers frames.
LayoutFrame == onTickLog.ticks < LayoutMaxTicks /\ Frame

\* The strict layout under drags, resets and refreshes that add a node.
NextLayout ==
    \/ \E m \in LayoutModes : Init(m)
    \/ LayoutFrame
    \/ \E n \in 1..LayoutMaxNodes : DragStart(n)
    \/ \E n \in 1..LayoutMaxNodes, p \in PinPoints : DragMove(n, p)
    \/ \E n \in 1..LayoutMaxNodes : DragEnd(n)
    \/ ResetLayoutToStrict
    \/ \E parent \in 1..LayoutMaxNodes, a \in LayoutEnergies : AddNode(parent, a)

SpecLayout == InitLayout /\ [][NextLayout]_vars

\* ------------------------------------------------- the engine's forces
\* Ticks on a graph of up to ForcesMaxNodes nodes whose nodes are dragged
\* and collapsed between the frames.
ForcesMaxNodes == 2

InitForces == InitTree(ForcesMaxNodes) /\ pc = "literal"

NextForces ==
    \/ \E m \in LayoutModes : Init(m)
    \/ FirstStart
    \/ LayoutFrame
    \/ \E n \in 1..ForcesMaxNodes : DragStart(n)
    \/ \E n \in 1..ForcesMaxNodes, p \in PinPoints : DragMove(n, p)
    \/ \E n \in 1..ForcesMaxNodes : DragEnd(n)
    \/ \E n \in 1..ForcesMaxNodes : ToggleCollapse(n)

SpecForces == InitForces /\ [][NextForces]_vars

\* The step ran a _tick that applied forces.
AppliesForces == onTickLog'.last = "step"

\* The node has the position of its pin and no velocity after the step.
SnappedToPin(n) ==
    /\ body'[n].x = body[n].fx
    /\ body'[n].y = body[n].fy
    /\ body'[n].vx = 0
    /\ body'[n].vy = 0

\* The node is in the active subset of the step's tick (collapsed flags are
\* those the tick finds).
ActiveInTick(n) == ~isHidden(n, Eng')

\* C12 (as claimed): every node of the engine's node array that is pinned
\* at the start of a tick that applies forces has x = fx, y = fy and
\* vx = vy = 0 after it, in every mode.
C12_PinnedSnapped ==
    [][AppliesForces =>
        \A n \in Range(nodes) : IsPinned(body[n]) => SnappedToPin(n)]_vars

\* C12 (amended): every pinned node that is active in the tick, that is, not
\* hidden by a collapsed ancestor, has x = fx, y = fy and vx = vy = 0 after a
\* tick that applies forces, in every mode.
C12_ActivePinnedSnapped ==
    [][AppliesForces =>
        \A n \in Range(nodes) :
            (IsPinned(body[n]) /\ ActiveInTick(n)) => SnappedToPin(n)]_vars

\* C12 witness: a frame tick in free mode, with two active nodes repelling
\* each other, has put a dragged node on its pin.
C12_Witness ==
    /\ pc = "frame"
    /\ onTickLog.last = "step"
    /\ mode = "free"
    /\ Len(nodes) = 2
    /\ \A n \in Range(nodes) : ~isHidden(n, Eng)
    /\ \E n \in Range(nodes) :
        /\ body[n].fx = 120 /\ body[n].fy = 40
        /\ body[n].x = 120 /\ body[n].y = 40
        /\ body[n].vx = 0 /\ body[n].vy = 0

\* C18 (as claimed): a strict-mode tick leaves x, y, vx and vy of every
\* unpinned node as they were and snaps every pinned node to its pin with
\* zero velocity.
C18_StrictTickBypassesPhysics ==
    [][(AppliesForces /\ mode' = "strict") =>
        \A n \in Range(nodes) :
            IF IsPinned(body[n]) THEN SnappedToPin(n)
            ELSE /\ body'[n].x = body[n].x
                 /\ body'[n].y = body[n].y
                 /\ body'[n].vx = body[n].vx
                 /\ body'[n].vy = body[n].vy]_vars

\* ---------------------------------------------------------------- reheat
\* The step is a refresh that calls reheat(a) on an idle engine.
ReheatsIdle(a) == ~running /\ pc' = "applyGraph" /\ onTickLog'.given = a

\* The annotations are those of the engine's current nodes and edges.
AnnotationsCurrent == obj = _calcTreeDepths(nodes, edges, obj)

\* C16 (as claimed): reheat(a) on an idle engine, called by a refresh of
\* the graph (with a = 0 in strict mode), leaves the energy at a, the
\* annotations recomputed from the current nodes and edges, and the engine
\* running with a tick scheduled, for every energy, 0 included.
C16_ReheatLeavesRunning ==
    /\ [](pc = "applyGraph" => AnnotationsCurrent)
    /\ [][\A a \in LayoutEnergies :
            ReheatsIdle(a) =>
                /\ alpha' = a
                /\ running'
                /\ TicksScheduled' = 1]_vars

\* C16 (amended): reheat(a) on an idle engine recomputes the annotations
\* and runs the first tick before it returns. With a at or above the
\* threshold that tick applies forces, the energy is a * (1 - alphaDecay) and
\* the engine is running with one tick scheduled; with a below the threshold
\* (0 included) the energy is a, onTick(nodes, true) has been called, the
\* engine is idle again and no tick is scheduled.
C16_ReheatRunsFirstTick ==
    /\ [](pc = "applyGraph" => AnnotationsCurrent)
    /\ [][\A a \in LayoutEnergies :
            ReheatsIdle(a) =>
                IF a >= alphaMin
                THEN /\ alpha' = Decay(a)
                     /\ onTickLog'.last = "step"
                     /\ running'
                     /\ TicksScheduled' = 1
                ELSE /\ alpha' = a
                     /\ onTickLog'.last = "final"
                     /\ ~running'
                     /\ TicksScheduled' = 0]_vars

\* C16 witness: a strict-mode refresh that added a third node has called
\* reheat(0) on an idle engine: the new node is annotated and laid out and
\* the engine is idle with energy 0.
C16_Witness ==
    /\ pc = "applyGraph"
    /\ mode = "strict"
    /\ Len(nodes) = 3
    /\ alpha = 0
    /\ ~running
    /\ onTickLog.last = "final"
    /\ obj[3]._depth >= 1
    /\ body[3].x = obj[3]._depth * 300

\* --------------------------------------------------------- strict layout
\* The last call laid every node out: resetLayoutToStrict, or init in
\* strict mode.
LaidOut == pc = "resetLayout" \/ (pc = "init" /\ mode = "strict")

\* C19: after applyStrictLayout() without onlyUnpositioned the annotations
\* are those of the current nodes and edges and every node of the array has
\* x = _depth * 300, y = _vIndex * 100 - (_vCount - 1) * 50 and vx = vy = 0.
C19_StrictLayoutFormula ==
    LaidOut =>
        /\ AnnotationsCurrent
        /\ \A n \in Range(nodes) :
            /\ body[n].x = obj[n]._depth * 300
            /\ body[n].y = obj[n]._vIndex * 100 - (obj[n]._vCount - 1) * 50
            /\ body[n].vx = 0
            /\ body[n].vy = 0

\* C19 witness: a reset of a graph with two nodes at one depth, one of them
\* held by a drag somewhere else, has put them 50 above and 50 below the
\* axis.
C19_Witness ==
    /\ pc = "resetLayout"
    /\ Len(nodes) = 3
    /\ \E n, k \in Range(nodes) :
        /\ obj[n]._depth = 1 /\ obj[k]._depth = 1
        /\ body[n].x = 300 /\ body[n].y = -50
        /\ body[k].x = 300 /\ body[k].y = 50
        /\ body[k].fx = 120 /\ body[k].fy = 40

\* n.x != null && n.y != null
Positioned(b) ==
    /\ b.x # Undefined /\ b.x # Nil
    /\ b.y # Undefined /\ b.y # Nil

\* The step is a refresh that added a node to a strict-mode graph whose
\* engine is idle, whose nodes all have a position and none of whose nodes
\* is held by a drag.
AddsToSettledStrict ==
    /\ pc' = "applyGraph"
    /\ mode = "strict"
    /\ ~running
    /\ Dragging = {}
    /\ \A n \in Range(nodes) : Positioned(body[n])

KeepsPosition(n) == body'[n].x = body[n].x /\ body'[n].y = body[n].y

\* C20 (as claimed): after one node and its edge are added to a settled
\* strict-mode graph, applyStrictLayout({onlyUnpositioned: true}) leaves x
\* and y of every previously positioned node exactly as they were.
C20_OnlyNewNodeMoves ==
    [][AddsToSettledStrict => \A n \in Range(nodes) : KeepsPosition(n)]_vars

\* C20 (amended): after one node and its edge are added to a settled
\* strict-mode graph, applyStrictLayout({onlyUnpositioned: true}) leaves x
\* and y of every previously positioned node that is not at the origin
\* (0, 0) exactly as they were, and puts the new node at x = _depth * 300,
\* y = _vIndex * 100 - (_vCount - 1) * 50.
C20_OnlyNewAndOriginNodesMove ==
    [][AddsToSettledStrict =>
        /\ \A n \in Range(nodes) : hasPos(body[n]) => KeepsPosition(n)
        /\ LET new == Len(nodes) + 1
           IN  /\ nodes' = Append(nodes, new)
               /\ body'[new].x = obj'[new]._depth * 300
               /\ body'[new].y = obj'[new]._vIndex * 100 - (obj'[new]._vCount - 1) * 50]_vars

\* C20 witness: a refresh added a third node next to a node that had been
\* dragged to (120, 40) and dropped there: the dragged node is where it was
\* dropped and the new node is below the axis of its depth.
C20_Witness ==
    /\ pc = "applyGraph"
    /\ mode = "strict"
    /\ Len(nodes) = 3
    /\ ~running
    /\ body[2].x = 120 /\ body[2].y = 40 /\ body[2].fx = Nil
    /\ obj[2]._depth = 1 /\ obj[3]._depth = 1
    /\ body[3].x = 300 /\ body[3].y = 50

\* ------------------------------------------------- switching to strict
\* The engine is switched to strict mode after its nodes were moved by
\* ticks and drags: setMode('strict'), then reheat(0), then the frame the
\* host delivers.
SwitchToStrict ==
    /\ pc \in {"init", "start", "frame", "drop"}
    /\ SetMode("strict")

RefreshAfterSwitch == pc = "setMode" /\ Reheat(0)

NextSwitch ==
    \/ \E m \in LayoutModes : Init(m)
    \/ FirstStart
    \/ LayoutFrame
    \/ \E n \in 1..ForcesMaxNodes : DragStart(n)
    \/ \E n \in 1..ForcesMaxNodes, p \in PinPoints : DragMove(n, p)
    \/ \E n \in 1..ForcesMaxNodes : DragEnd(n)
    \/ SwitchToStrict
    \/ RefreshAfterSwitch

SpecSwitch == InitForces /\ [][NextSwitch]_vars

\* The frame after setMode('strict') and reheat(0) has run its tick.
SwitchedAndTicked == pc = "frame" /\ mode = "strict" /\ alpha = 0

\* C21 (as claimed): after setMode('strict'), reheat(0) and one tick every
\* node is at x = _depth * 300, y = _vIndex * 100 - (_vCount - 1) * 50,
\* wherever it was before.
C21_StrictAfterSwitch ==
    SwitchedAndTicked =>
        \A n \in Range(nodes) :
            /\ body[n].x = obj[n]._depth * 300
            /\ body[n].y = obj[n]._vIndex * 100 - (obj[n]._vCount - 1) * 50

\* ------------------------------------------------- the store's methods
\* The store as one value.
Store == [_nodes |-> _nodes, _edges |-> _edges, fixed |-> fixed, argEdges |-> argEdges]

StoreBecomes(s) ==
    /\ _nodes' = s._nodes
    /\ _edges' = s._edges
    /\ fixed' = s.fixed
    /\ argEdges' = s.argEdges

\* An argument of loadGraph / refreshGraph: an array, or a value for which
\* Array.isArray is false (undefined, null, an object).
Arg(array) == [isArray |-> TRUE, items |-> array]

NotAnArray == [isArray |-> FALSE, items |-> <<>>]

\* const result = this._ensureGraphIntegrity(); ...; return result: the
\* store after the repair of this._nodes = ns and this._edges = es
Repaired(ns, es, o) ==
    LET result == _ensureGraphIntegrity(ns, es, o)
    IN  [_nodes |-> ns, _edges |-> result.edges, fixed |-> result.fixed,
         argEdges |-> es]

\* loadGraph(nodes, edges) on the store s
loadGraph(s, ns, es, o) ==
    Repaired(IF ns.isArray THEN ns.items ELSE <<>>,
             IF es.isArray THEN es.items ELSE <<>>, o)

\* Mutant of refreshGraph: the store keeps the edge array it has.
refreshGraphOfNodes(s, ns, es, o) ==
    Repaired(IF ns.isArray THEN ns.items ELSE s._nodes, s._edges, o)

\* refreshGraph(nodes, edges) on the store s
refreshGraph(s, ns, es, o) ==
    Repaired(IF ns.isArray THEN ns.items ELSE s._nodes,
             IF es.isArray THEN es.items ELSE s._edges, o)

\* this._nodeMap = new Map(this._nodes.map(n => [n.id, n])): the ids the
\* index knows; each is mapped to the node object of that id
_nodeMap(s) == Range(s._nodes)

\* ------------------------------------------------- the app's handlers
\* The handlers of the app that change the graph, with the store and the
\* engine they drive. The app and the engine hold the same two arrays
\* (this._nodes = ForceLayout.nodes, ForceLayout.edges = this._edges), the
\* store holds the same node array and an edge array of its own.
AppMaxNodes == 3

\* reheat energies of the handlers: _doCreateNode 0.5, handleNodeMove 0.6,
\* the delete handler 0.4
CreateEnergy == 5 * (AlphaOne \div 10)
MoveEnergy == 6 * (AlphaOne \div 10)
DeleteEnergy == 4 * (AlphaOne \div 10)

InitApp == InitTree(AppMaxNodes - 1) /\ pc = "literal"

\* The onTick callback the app gives to ForceLayout.init: this._nodes =
\* laidNodes; graphStore.refreshGraph(this._nodes, this._edges). It runs in
\* every _tick, after the forces; s is the store if no _tick ran in the call.
AfterOnTick(e, s) ==
    IF e.log.last = "none" THEN s ELSE refreshGraph(Store, Arg(e.nodes), Arg(e.edges), e.obj)

\* The walk of isHidden from curr ends within fuel steps.
RECURSIVE WalkEnds(_, _, _)
WalkEnds(curr, e, fuel) ==
    IF curr \notin Range(e.nodes) THEN TRUE
    ELSE LET parentId == e.obj[curr].parentId
         IN  IF parentId = Null THEN TRUE
             ELSE IF parentId \in Range(e.nodes) /\ e.body[parentId].collapsed THEN TRUE
             ELSE IF fuel = 0 THEN FALSE
             ELSE WalkEnds(parentId, e, fuel - 1)

\* _getActiveNodes() does not return: the while loop of isHidden follows
\* parentId around a cycle without a collapsed node.
LoopsForever(e) ==
    \E n \in Range(e.nodes) : ~WalkEnds(n, e, Cardinality(Range(e.nodes)))

\* reheat(a) on the engine e reaches _applyForces and never returns.
ReheatHangs(e, a) == ~e.running /\ a >= alphaMin /\ LoopsForever(e)

\* The handler is stuck in the loop: the thread runs no other handler.
Hangs(e, s) ==
    /\ Becomes(e)
    /\ StoreBecomes(s)
    /\ pc' = "hung"

Responsive == pc \notin {"literal", "hung"}

\* App._loadGraph: graphStore.loadGraph, ForceLayout.init with the onTick
\* callback, graphStore.refreshGraph, ForceLayout.start(). The engine gets
\* the arrays of the caller, not the store's.
_loadGraph(m) ==
    /\ pc = "literal"
    /\ LET e == start(init(Called, m))
       IN  /\ Becomes(e)
           /\ StoreBecomes(AfterOnTick(e, refreshGraph(Store, Arg(e.nodes), Arg(e.edges), e.obj)))
    /\ pc' = "loadGraph"
    /\ UNCHANGED <<calc, observerVars, asyncVars>>

\* A frame callback () => this._tick() with the app's onTick callback.
AppFrame ==
    /\ Responsive
    /\ BetweenFrames
    /\ onTickLog.ticks < LayoutMaxTicks
    /\ \E byHandle \in BOOLEAN :
        /\ Requested(byHandle)
        /\ LET e == Fired(byHandle)
           IN  IF ~Stops(e) /\ LoopsForever(e) THEN Hangs(e, Store)
               ELSE /\ Becomes(_tick(e))
                    /\ StoreBecomes(AfterOnTick(_tick(e), Store))
                    /\ pc' = "frame"
    /\ UNCHANGED <<calc, observerVars, asyncVars>>

\* The store's edge array is the array the app and the engine hold: the
\* app took graphStore.edges in _applyGraph and no onTick callback has made
\* the store filter it into a new array since.
SharedEdges ==
    /\ pc \in {"create", "move", "delete"}
    /\ onTickLog.last = "none"
    /\ edges = _edges

\* App._doCreateNode up to its first await: newNode and newEdge are pushed
\* to this._nodes / this._edges and to ForceLayout.nodes / ForceLayout.edges,
\* which are the same arrays; _calcTreeDepths; reheat(strict ? 0 : 0.5).
_doCreateNode(parent) ==
    /\ Responsive
    /\ BetweenFrames
    /\ parent \in Range(nodes)
    /\ Cardinality(DOMAIN obj) < AppMaxNodes
    /\ LET id == Cardinality(DOMAIN obj) + 1
           newEdge == SynthEdge(parent, id)
           ns == nodes \o <<id, id>>
           es == edges \o <<newEdge, newEdge>>
           e1 == [Called EXCEPT
                    !.nodes = ns,
                    !.edges = es,
                    !.obj = [i \in 1..id |-> IF i = id THEN NewNode(parent, id) ELSE obj[i]],
                    !.body = [i \in 1..id |->
                                IF i = id THEN [FreshBody EXCEPT !.x = Float, !.y = Float,
                                                                 !.vx = 0, !.vy = 0]
                                ELSE body[i]]]
           a == IF mode = "strict" THEN 0 ELSE CreateEnergy
           s == [Store EXCEPT !._nodes = ns,
                              !._edges = IF SharedEdges THEN es ELSE @]
       IN  IF ReheatHangs(e1, a)
           THEN Hangs([e1 EXCEPT !.running = TRUE, !.alpha = a], s)
           ELSE /\ Schedulable(reheat(e1, a))
                /\ Becomes(reheat(e1, a))
                /\ StoreBecomes(AfterOnTick(reheat(e1, a), s))
                /\ pc' = "create"
    /\ UNCHANGED <<calc, observerVars, asyncVars>>

\* App._applyGraph(a): the store repairs the app's arrays, the app and the
\* engine take the store's arrays, reheat(strict ? 0 : a), and in strict
\* mode applyStrictLayout({ onlyUnpositioned: true }).
_applyGraph(e, es, a, name) ==
    LET s == refreshGraph(Store, Arg(e.nodes), Arg(es), e.obj)
        e1 == [e EXCEPT !.edges = s._edges]
        energy == IF e.mode = "strict" THEN 0 ELSE a
        e2 == reheat(e1, energy)
    IN  IF ReheatHangs(e1, energy)
        THEN Hangs([e1 EXCEPT !.running = TRUE, !.alpha = energy], s)
        ELSE /\ Schedulable(e2)
             /\ Becomes(IF e.mode = "strict" THEN applyStrictLayout(e2, TRUE) ELSE e2)
             /\ StoreBecomes(AfterOnTick(e2, s))
             /\ pc' = name

\* App.handleNodeMove up to its first await: every incoming edge of srcNode
\* is removed, the edge targetFolder -> srcNode is pushed, srcNode.parentId
\* is set, its position is cleared, _applyGraph(0.6). The renderer offers
\* the move when a node is dropped onto another node.
handleNodeMove(srcNode, targetFolder) ==
    /\ Responsive
    /\ BetweenFrames
    /\ srcNode \in Range(nodes)
    /\ targetFolder \in Range(nodes)
    /\ srcNode # targetFolder
    /\ _applyGraph([Called EXCEPT !.obj[srcNode].parentId = targetFolder,
                                  !.body[srcNode].x = Undefined,
                                  !.body[srcNode].y = Undefined],
                   Append(SelectSeq(edges, LAMBDA e : e.target # srcNode),
                          SynthEdge(targetFolder, srcNode)),
                   MoveEnergy, "move")
    /\ UNCHANGED <<calc, observerVars, asyncVars>>

\* collectDescendants of the delete handler returns: no edge cycle is
\* reachable from the node (the recursion has no visited set).
Collects(n) ==
    LET below == ReachableFrom({n}, edges)
    IN  \A d \in below :
            d \notin ReachableFrom({edges[i].target : i \in {j \in DOMAIN edges :
                                                            edges[j].source = d}}, edges)

\* The optimistic part of the context-menu delete: the node and its
\* descendants along the edges leave this._nodes, their edges leave
\* this._edges, _applyGraph(0.4).
OptimisticDelete(n) ==
    /\ Responsive
    /\ BetweenFrames
    /\ n \in Range(nodes)
    /\ Collects(n)
    /\ LET descendants == ReachableFrom({n}, edges)
       IN  _applyGraph([Called EXCEPT
                            !.nodes = SelectSeq(nodes, LAMBDA d : d \notin descendants)],
                       SelectSeq(edges, LAMBDA e : e.source \notin descendants
                                                  /\ e.target \notin descendants),
                       DeleteEnergy, "delete")

\* The context-menu delete up to its first await, outside Dropbox mode:
\* the handler awaits nothing and its catch block is never entered.
ctx_delete(n) ==
    /\ OptimisticDelete(n)
    /\ UNCHANGED <<calc, observerVars, asyncVars>>

NextApp ==
    \/ \E m \in LayoutModes : _loadGraph(m)
    \/ AppFrame
    \/ \E parent \in 1..AppMaxNodes : _doCreateNode(parent)
    \/ \E srcNode \in 1..AppMaxNodes, targetFolder \in 1..AppMaxNodes :
            handleNodeMove(srcNode, targetFolder)
    \/ \E n \in 1..AppMaxNodes : ctx_delete(n)

SpecApp == InitApp /\ [][NextApp]_vars

\* ------------------------------------------------- app handler properties
\* The last call ran a _tick that applied forces; the arrays it read are
\* the arrays of this state.
TickedOnArrays == Responsive /\ onTickLog.last = "step"

\* The edge array the engine holds is what the store's repair makes of the
\* engine's arrays.
EngineArraysRepaired == edges = _ensureGraphIntegrity(nodes, edges, obj).edges

\* C22 (as claimed): every tick reads arrays that went through the store's
\* repair after their last structural change: what a tick that applies
\* forces reads is the repair's output.
C22_TicksReadRepairedArrays == TickedOnArrays => EngineArraysRepaired

\* The nodes reached from the set S by following parentId.
RECURSIVE AncestorsFrom(_)
AncestorsFrom(S) ==
    LET up == S \cup {obj[n].parentId : n \in {d \in S : obj[d].parentId \in DOMAIN obj}}
    IN  IF up = S THEN S ELSE AncestorsFrom(up)

Ancestors(n) ==
    IF obj[n].parentId \in DOMAIN obj THEN AncestorsFrom({obj[n].parentId}) ELSE {}

\* C23 (as claimed): after any sequence of create, move and delete through
\* the app no node of the graph is its own ancestor along parentId, also
\* after a folder was dropped onto one of its descendants.
C23_NoNodeItsOwnAncestor == \A n \in Range(nodes) : n \notin Ancestors(n)

\* ------------------------------------------- the store's fixed count
\* The positions of the array handed to the store whose edge has an
\* endpoint that is no node.
DroppedForEndpoint == {i \in DOMAIN argEdges : ~EndsKnown(argEdges[i], _nodes)}

\* The positions whose edge repeats the pair of an earlier edge that was
\* not dropped for an endpoint.
DroppedAsDuplicate ==
    {i \in DOMAIN argEdges \ DroppedForEndpoint :
        \E j \in 1..(i - 1) :
            /\ j \notin DroppedForEndpoint
            /\ EdgePair(argEdges[j]) = EdgePair(argEdges[i])}

\* The positions of the store's array whose edge was not handed in.
Synthesized == {i \in DOMAIN _edges : _edges[i] \notin Range(argEdges)}

\* C24: the fixed count a loadGraph / refreshGraph call returns is the
\* number of edges dropped for a missing endpoint plus the number dropped as
\* duplicates plus the number synthesized, and it is 0 exactly when the
\* store's edge array is the array that was handed in.
C24_FixedCountsTheRepairs ==
    StoreRepaired =>
        /\ fixed = Cardinality(DroppedForEndpoint) + Cardinality(DroppedAsDuplicate)
                    + Cardinality(Synthesized)
        /\ fixed = 0 <=> _edges = argEdges

\* A refresh that dropped a duplicate and synthesized an edge: fixed = 2
\* although the store's array is as long as the array handed in.
C24_Witness ==
    /\ pc = "refreshed"
    /\ DroppedAsDuplicate # {}
    /\ Synthesized # {}
    /\ fixed = 2
    /\ Len(_edges) = Len(argEdges)

\* ------------------------------------------------- the store's listeners
\* The store with collaborators that subscribe, unsubscribe and call
\* loadGraph / refreshGraph with their arrays or with something that is no
\* array. A listener returns or throws; it calls nothing.
ObservedMaxNodes == 2
ObservedMaxEdges == 2
MaxListeners == 2

Listeners == 1..MaxListeners

\* The caller's arrays: up to ObservedMaxNodes nodes that name no parent,
\* with any edge array.
InitObserved ==
    /\ \E k \in 0..ObservedMaxNodes :
        /\ nodes = [i \in 1..k |-> i]
        /\ obj = [i \in 1..k |-> NewNode(Null, i)]
        /\ edges \in EdgeArrays(InputIds(k, ObservedMaxNodes), ObservedMaxEdges)
    /\ _nodes = <<>>
    /\ _edges = <<>>
    /\ fixed = Undefined
    /\ argEdges = <<>>
    /\ pc = "new"
    /\ calc = NoCalc
    /\ EngineLiteral
    /\ NoListeners
    /\ NotAwaiting

\* { type: 'graphChanged', nodes: this._nodes, edges: this._edges }
graphChanged(s) == [nodes |-> s._nodes, edges |-> s._edges]

\* One listener(event) call: what the listener got and how it ended.
ListenerCall(listener, event, throwing) ==
    [listener |-> listener, nodes |-> event.nodes, edges |-> event.edges,
     threw |-> listener \in throwing]

\* Mutant of _emit: the loop ends after the first listener.
_emitOnce(ls, event, throwing) ==
    IF ls = <<>> THEN <<>> ELSE <<ListenerCall(ls[1], event, throwing)>>

\* Mutant of _emit: no try / catch, the first exception ends the loop.
RECURSIVE _emitUncaught(_, _, _)
_emitUncaught(ls, event, throwing) ==
    IF ls = <<>> THEN <<>>
    ELSE IF Head(ls) \in throwing THEN <<ListenerCall(Head(ls), event, throwing)>>
    ELSE <<ListenerCall(Head(ls), event, throwing)>>
            \o _emitUncaught(Tail(ls), event, throwing)

\* _emit(event): for (const listener of this._listeners) try { listener(event) }
\* catch (e) { console.warn(...) }: the listener calls it makes
_emit(ls, event, throwing) ==
    [i \in DOMAIN ls |-> ListenerCall(ls[i], event, throwing)]

\* this._listeners.delete(listener)
Deleted(ls, listener) == SelectSeq(ls, LAMBDA l : l # listener)

\* subscribe(listener): this._listeners.add(listener)
subscribe(listener) ==
    /\ pc # "literal"
    /\ _listeners' = IF listener \in Range(_listeners) THEN _listeners
                     ELSE Append(_listeners, listener)
    /\ pc' = "subscribe"
    /\ UNCHANGED <<nodes, edges, obj, _nodes, _edges, fixed, argEdges, calc,
                   engineVars, emitted, asyncVars>>

\* The function subscribe(listener) returned is called.
unsubscribe(listener) ==
    /\ listener \in Range(_listeners)
    /\ _listeners' = Deleted(_listeners, listener)
    /\ pc' = "unsubscribe"
    /\ UNCHANGED <<nodes, edges, obj, _nodes, _edges, fixed, argEdges, calc,
                   engineVars, emitted, asyncVars>>

\* What a collaborator passes for an array parameter.
Given(isArray, array) == IF isArray THEN Arg(array) ELSE NotAnArray

\* graphStore.loadGraph(nodes, edges) while the listeners in throwing throw
ObservedLoadGraph(nodesIsArray, edgesIsArray, throwing) ==
    /\ pc # "literal"
    /\ LET s == loadGraph(Store, Given(nodesIsArray, nodes),
                          Given(edgesIsArray, edges), obj)
       IN  /\ StoreBecomes(s)
           /\ emitted' = _emit(_listeners, graphChanged(s), throwing)
    /\ pc' = "loadGraph"
    /\ UNCHANGED <<nodes, edges, obj, calc, engineVars, _listeners, asyncVars>>

\* graphStore.refreshGraph(nodes, edges) while the listeners in throwing throw
ObservedRefreshGraph(nodesIsArray, edgesIsArray, throwing) ==
    /\ pc # "literal"
    /\ LET s == refreshGraph(Store, Given(nodesIsArray, nodes),
                             Given(edgesIsArray, edges), obj)
       IN  /\ StoreBecomes(s)
           /\ emitted' = _emit(_listeners, graphChanged(s), throwing)
    /\ pc' = "refreshGraph"
    /\ UNCHANGED <<nodes, edges, obj, calc, engineVars, _listeners, asyncVars>>

NextObserved ==
    \/ \E listener \in Listeners : subscribe(listener)
    \/ \E listener \in Listeners : unsubscribe(listener)
    \/ \E nodesIsArray \in BOOLEAN, edgesIsArray \in BOOLEAN, throwing \in SUBSET Listeners :
            ObservedLoadGraph(nodesIsArray, edgesIsArray, throwing)
    \/ \E nodesIsArray \in BOOLEAN, edgesIsArray \in BOOLEAN, throwing \in SUBSET Listeners :
            ObservedRefreshGraph(nodesIsArray, edgesIsArray, throwing)

SpecObserved == InitObserved /\ [][NextObserved]_vars

\* ------------------------------------------- the listeners' properties
\* The last call of a collaborator was a loadGraph or a refreshGraph.
GraphCalled == pc \in {"loadGraph", "refreshGraph"}

\* The listeners the last call called, in the order of the calls.
CalledListeners == [i \in DOMAIN emitted |-> emitted[i].listener]

\* C25: a loadGraph / refreshGraph call calls every listener that is
\* subscribed at that moment exactly once and nobody else, with the store's
\* nodes and edges as the repair left them; the function subscribe returned
\* takes the listener out of the set, so that no later call reaches it.
C25_OneEventPerSubscribedListener ==
    /\ [](GraphCalled =>
            /\ CalledListeners = _listeners
            /\ \A i \in DOMAIN emitted :
                /\ emitted[i].nodes = _nodes
                /\ emitted[i].edges = _edges
                /\ emitted[i].edges = _ensureGraphIntegrity(_nodes, argEdges, obj).edges)
    /\ [][/\ pc' = "unsubscribe" =>
                \E listener \in Range(_listeners) :
                    /\ listener \notin Range(_listeners')
                    /\ _listeners' = SelectSeq(_listeners, LAMBDA l : l # listener)
          /\ pc' \in {"loadGraph", "refreshGraph"} =>
                \A i \in DOMAIN emitted' : emitted'[i].listener \in Range(_listeners)
         ]_vars

\* A call whose repair changed the edge array reached the one listener that
\* is still subscribed.
C25_Witness ==
    /\ GraphCalled
    /\ _listeners = <<2>>
    /\ Len(emitted) = 1
    /\ fixed > 0
    /\ emitted[1].edges # argEdges

\* A listener threw during the last call.
ListenerThrew == GraphCalled /\ \E i \in DOMAIN emitted : emitted[i].threw

\* C26: when a listener throws while it handles graphChanged, the call
\* still calls every other subscribed listener, keeps the repaired state
\* and returns its fixed count.
C26_ThrowingListenerIsContained ==
    ListenerThrew =>
        /\ Range(_listeners) \subseteq Range(CalledListeners)
        /\ Len(emitted) = Len(_listeners)
        /\ _edges = _ensureGraphIntegrity(_nodes, argEdges, obj).edges
        /\ fixed = _ensureGraphIntegrity(_nodes, argEdges, obj).fixed

\* The first of two listeners threw, the second was called, fixed = 1.
C26_Witness ==
    /\ ListenerThrew
    /\ Len(emitted) = 2
    /\ emitted[1].threw
    /\ ~emitted[2].threw
    /\ fixed = 1

\* What the claim compares of two stores.
SameStore(s, t) ==
    /\ s._nodes = t._nodes
    /\ s._edges = t._edges
    /\ _nodeMap(s) = _nodeMap(t)
    /\ s.fixed = t.fixed

\* What a collaborator may pass for the two parameters.
NodeArguments == {NotAnArray, Arg(nodes), Arg(<<>>)}
EdgeArguments == {NotAnArray, Arg(edges), Arg(<<>>)}

\* C27 (as claimed): from the same store state and with the same
\* arguments refreshGraph leaves the store as loadGraph does and returns
\* the same fixed count.
C27_RefreshBehavesAsLoad ==
    \A ns \in NodeArguments, es \in EdgeArguments :
        SameStore(loadGraph(Store, ns, es, obj), refreshGraph(Store, ns, es, obj))

\* C27 (amended): the two agree when both arguments are arrays; for an
\* argument that is no array loadGraph repairs an empty array and
\* refreshGraph the array the store holds.
C27_RefreshBehavesAsLoadOnArrays ==
    \A ns \in NodeArguments, es \in EdgeArguments :
        /\ ns.isArray /\ es.isArray =>
            SameStore(loadGraph(Store, ns, es, obj), refreshGraph(Store, ns, es, obj))
        /\ loadGraph(Store, ns, es, obj)._nodes = (IF ns.isArray THEN ns.items ELSE <<>>)
        /\ refreshGraph(Store, ns, es, obj)._nodes = (IF ns.isArray THEN ns.items ELSE _nodes)
        /\ loadGraph(Store, ns, es, obj).argEdges = (IF es.isArray THEN es.items ELSE <<>>)
        /\ refreshGraph(Store, ns, es, obj).argEdges = (IF es.isArray THEN es.items ELSE _edges)

\* A refreshGraph with two arrays was made on a store that held other
\* arrays, and its repair changed the edge array.
C27_Witness ==
    /\ pc = "refreshGraph"
    /\ _nodes = nodes
    /\ argEdges = edges
    /\ Len(nodes) > 0
    /\ fixed > 0
    /\ loadGraph(Store, NotAnArray, NotAnArray, obj)._nodes
            # refreshGraph(Store, NotAnArray, NotAnArray, obj)._nodes

\* C28 (as claimed): the repair works on the edge array that was handed to
\* loadGraph: after the call that array holds the store's repaired edges,
\* and the store's node array is the array that was passed in, with the
\* node objects it came with.
C28_RepairMutatesCallersEdgeArray ==
    pc = "loaded" =>
        /\ edges = _edges
        /\ nodes = _nodes
        /\ \A n \in Range(_nodes) : obj[n].name = n

\* ------------------------------------------------- setMode with any value
\* What callers pass to setMode: the three layout modes and a value that
\* is none of them.
RequestedModes == LayoutModes \cup {"grid"}

NextModes ==
    \/ \E m \in LayoutModes : Init(m)
    \/ FirstStart
    \/ Stop
    \/ LayoutFrame
    \/ \E m \in RequestedModes : SetMode(m)

SpecModes == InitForces /\ [][NextModes]_vars

\* C29 (as claimed): whatever value setMode is called with, the engine's
\* mode is one of 'free', 'strict' and 'radial'.
C29_ModeIsAlwaysValid == pc # "literal" => mode \in LayoutModes

\* ------------------------------------------------- the empty graph
\* The engine on a graph of no node or of one node.
InitEmpty ==
    /\ \/ nodes = <<>> /\ obj = <<>>
       \/ nodes = <<1>> /\ obj = <<NewNode(Null, 1)>>
    /\ edges = <<>>
    /\ _nodes = <<>>
    /\ _edges = <<>>
    /\ fixed = Undefined
    /\ argEdges = <<>>
    /\ pc = "literal"
    /\ calc = NoCalc
    /\ EngineLiteral
    /\ NoListeners
    /\ NotAwaiting

NextEmpty ==
    \/ \E m \in LayoutModes : Init(m)
    \/ Start
    \/ Stop
    \/ \E a \in Energies : Reheat(a)
    \/ LayoutFrame

SpecEmpty == InitEmpty /\ [][NextEmpty]_vars

\* start() or reheat() has returned on an engine without nodes.
StartedEmpty == Len(nodes) = 0 /\ pc \in {"start", "reheat"}

\* C30 (as claimed): start() and reheat() on an empty node array leave the
\* engine idle and no tick scheduled.
C30_EmptyGraphStaysIdle == StartedEmpty => ~running /\ ~TickScheduled

\* C31 (as claimed): a tick terminates for every node array, also when
\* parentId links form a cycle without a collapsed node: no handler is
\* ever stuck computing the active nodes.
C31_TickTerminates == pc # "hung"

\* The velocities and positions of the node are numbers.
Numeric(b) == IsNumber(b.x) /\ IsNumber(b.y) /\ IsNumber(b.vx) /\ IsNumber(b.vy)

\* C32 (as claimed): every active node that a free-mode or radial-mode force
\* tick of a frame processes has a numeric x and y when the tick begins: a
\* handler that cleared a position has assigned one before the next tick.
C32_TickedNodesArePlaced ==
    [][(pc' = "frame" /\ onTickLog'.last = "step" /\ mode \in {"free", "radial"})
        => \A n \in Range(_getActiveNodes(Eng)) : ~Unplaced(body[n])]_vars

\* C32 (as claimed, second half): an undefined position never spreads: a
\* node the handlers left with numbers keeps numbers in every tick.
C32_UndefinedNeverSpreads ==
    [][(pc' = "frame" /\ onTickLog'.last = "step")
        => \A n \in Range(nodes) : Numeric(body[n]) => Numeric(body'[n])]_vars

\* The node _doCreateNode has just made: ids are handed out in order.
Created == Cardinality(DOMAIN obj)

\* C33 (as claimed): after an optimistic create the shared node array holds
\* the new node exactly once and the edge array holds exactly one edge to
\* it, the edge from its parent; no id occurs twice in the node array.
C33_CreatedOnce ==
    pc = "create" =>
        /\ Cardinality({i \in DOMAIN nodes : nodes[i] = Created}) = 1
        /\ Cardinality({i \in DOMAIN edges : edges[i].target = Created}) = 1
        /\ \A i \in DOMAIN edges :
            edges[i].target = Created => edges[i].source = obj[Created].parentId
        /\ \A i, j \in DOMAIN nodes : nodes[i] = nodes[j] => i = j

\* ------------------------------------------ rollback of a remote delete
\* The app in Dropbox mode: ctx_delete is suspended at await
\* storage.deleteNode(node) while other handlers run; the provider then
\* resolves or rejects the call.
RollbackMaxNodes == 3

InitRollback == InitTree(RollbackMaxNodes - 1) /\ pc = "literal"

\* ctx_delete up to await storage.deleteNode(node): backupNodes and
\* backupEdges are copies of the arrays before the optimistic removal.
ctx_delete_awaits(n) ==
    /\ awaiting = "none"
    /\ OptimisticDelete(n)
    /\ awaiting' = IF pc' = "hung" THEN "none" ELSE "deleteNode"
    /\ backupNodes' = nodes
    /\ backupEdges' = edges
    /\ UNCHANGED <<calc, observerVars>>

\* storage.deleteNode resolved: the handler ends (the tag config and the
\* sync it starts do not touch the arrays in this turn).
deleteNode_resolves ==
    /\ awaiting = "deleteNode"
    /\ Responsive
    /\ BetweenFrames
    /\ awaiting' = "none"
    /\ backupNodes' = <<>>
    /\ backupEdges' = <<>>
    /\ pc' = "deleted"
    /\ UNCHANGED <<nodes, edges, obj, _nodes, _edges, fixed, argEdges, calc,
                   engineVars, observerVars>>

\* storage.deleteNode rejected with an error other than not_found: the
\* catch block restores the backups and calls _applyGraph(0).
deleteNode_rejects ==
    /\ awaiting = "deleteNode"
    /\ Responsive
    /\ BetweenFrames
    /\ _applyGraph([Called EXCEPT !.nodes = backupNodes], backupEdges, 0, "rollback")
    /\ awaiting' = "none"
    /\ backupNodes' = <<>>
    /\ backupEdges' = <<>>
    /\ UNCHANGED <<calc, observerVars>>

NextRollback ==
    \/ \E m \in LayoutModes : _loadGraph(m)
    \/ \E n \in 1..RollbackMaxNodes : ctx_delete_awaits(n)
    \/ \E parent \in 1..RollbackMaxNodes : _doCreateNode(parent)
    \/ \E srcNode \in 1..RollbackMaxNodes, targetFolder \in 1..RollbackMaxNodes :
            handleNodeMove(srcNode, targetFolder)
    \/ deleteNode_resolves
    \/ deleteNode_rejects

SpecRollback == InitRollback /\ [][NextRollback]_vars

\* C34 (as claimed): when a failed remote delete is rolled back, the graph
\* again holds the deleted node and its descendants and still holds every
\* node and edge the arrays held when the rejection arrived, those a create
\* or move added while the delete was in flight included.
C34_RollbackKeepsLaterWork ==
    [][pc' = "rollback" =>
        /\ Range(backupNodes) \subseteq Range(nodes')
        /\ Range(nodes) \subseteq Range(nodes')
        /\ Range(edges) \subseteq Range(edges')]_vars

\* No frame callback of the engine is queued at the host: the next
\* animation frame runs no _tick.
NoTickAhead == _raf # "pending" /\ sched.orphans = 0

\* C35 (as claimed): a visible node that a drag holds pinned is at its pin
\* at the end of every frame, in every mode: after a frame of the engine,
\* and also when the engine is idle and the next frame runs no tick.
C35_DraggedNodeAtPin ==
    \A n \in Dragging :
        (~isHidden(n, Eng) /\ (pc = "frame" \/ NoTickAhead))
            => body[n].x = body[n].fx /\ body[n].y = body[n].fy

\* ------------------------------------------------ ticks and hidden nodes
\* Ticks of a graph in which folders are collapsed and expanded while
\* refreshes add nodes that have no position yet.
HiddenMaxNodes == 3

InitHidden == InitTree(HiddenMaxNodes - 1) /\ pc = "literal"

\* A refresh that adds one node: App._applyGraph with these bounds.
HiddenAddNode(parent, a) == Len(nodes) < HiddenMaxNodes /\ AddNode(parent, a)

NextHidden ==
    \/ \E m \in LayoutModes : Init(m)
    \/ FirstStart
    \/ LayoutFrame
    \/ \E n \in 1..HiddenMaxNodes : ToggleCollapse(n)
    \/ \E parent \in 1..HiddenMaxNodes, a \in {0, 5 * (AlphaOne \div 10)} :
            HiddenAddNode(parent, a)

SpecHidden == InitHidden /\ [][NextHidden]_vars

\* The nodes of the array with no collapsed ancestor when the step begins.
ActiveNow == {n \in Range(nodes) : ~isHidden(n, Eng)}

\* C36: a tick that applies forces (the first tick of start() or the tick
\* of a frame) changes the simulation fields of active
\* nodes only (nodes with no collapsed ancestor along parentId): every
\* hidden node keeps x, y, vx and vy. The forces read active nodes only: if
\* every active node holds numbers before the tick, every active node
\* holds numbers after it, whatever the hidden nodes hold and whatever
\* edges lead to them.
C36_TickTouchesActiveNodesOnly ==
    [][(AppliesForces /\ pc' \in {"start", "frame"}) =>
        /\ \A n \in DOMAIN body : body'[n] # body[n] => n \in ActiveNow
        /\ (\A n \in ActiveNow : Numeric(body[n]))
            => \A n \in ActiveNow : Numeric(body'[n])]_vars

\* C36 witness: a tick in free or radial mode has moved two active nodes
\* while a third node, a child of the collapsed node 2 that a refresh added
\* without position, is hidden, still has no position, and is the target
\* of an edge from the active node 2.
C36_Witness ==
    /\ pc = "frame"
    /\ onTickLog.last = "step"
    /\ mode \in {"free", "radial"}
    /\ Len(nodes) = 3
    /\ body[2].collapsed
    /\ obj[3].parentId = 2
    /\ \E i \in DOMAIN edges : edges[i].source = 2 /\ edges[i].target = 3
    /\ body[3].x = Undefined /\ body[3].y = Undefined
    /\ \A n \in {1, 2} : ~isHidden(n, Eng) /\ Numeric(body[n]) /\ body[n].vx = Float

\* The arrays are a tree: every edge joins two different nodes of the
\* array, no pair occurs twice, one node has no incoming edge, every other
\* node has exactly one, and every node is reachable from the root.
IsTree(ns, es) ==
    /\ Len(ns) > 0
    /\ \A i, j \in DOMAIN ns : ns[i] = ns[j] => i = j
    /\ \A i \in DOMAIN es : EndsKnown(es[i], ns) /\ es[i].source # es[i].target
    /\ \A i, j \in DOMAIN es : es[i].target = es[j].target => i = j
    /\ Cardinality({n \in Range(ns) : \A i \in DOMAIN es : es[i].target # n}) = 1
    /\ Len(es) = Len(ns) - 1
    /\ \E r \in Range(ns) :
        /\ \A i \in DOMAIN es : es[i].target # r
        /\ Range(ns) \subseteq ReachableFrom({r}, es)

\* C37: in a tree, two children of the same parent get their _vIndex in
\* the order of their names, whatever the order of the node and edge arrays.
C37_SiblingsIndexedByName ==
    (Annotated /\ IsTree(nodes, edges)) =>
        \A i, j \in DOMAIN edges :
            LET a == edges[i].target
                b == edges[j].target
            IN  (edges[i].source = edges[j].source /\ obj[a].name < obj[b].name)
                    => obj[a]._vIndex < obj[b]._vIndex

\* C37 witness: a tree was annotated in which the edge to the sibling with
\* the later name comes first in the edge array and that sibling comes
\* first in the node array, and the sibling with the earlier name has the
\* lower _vIndex.
C37_Witness ==
    /\ Annotated
    /\ IsTree(nodes, edges)
    /\ \E i, j \in DOMAIN edges :
        /\ i < j
        /\ edges[i].source = edges[j].source
        /\ edges[i].target < edges[j].target
        /\ obj[edges[i].target].name > obj[edges[j].target].name
        /\ obj[edges[i].target]._vIndex = 1
        /\ obj[edges[j].target]._vIndex = 0

\* C38: the repair is idempotent: refreshGraph called again with the
\* store's node array and its repaired edge array returns fixed = 0, leaves
\* the edge array as it is and chooses the root the first repair chose.
C38_RepairIsIdempotent ==
    pc \in {"loaded", "refreshed"} =>
        LET first == _ensureGraphIntegrity(_nodes, argEdges, obj)
            again == _ensureGraphIntegrity(_nodes, _edges, obj)
        IN  /\ again.fixed = 0
            /\ again.edges = _edges
            /\ again.rootId = first.rootId

\* C38 witness: a refresh dropped a duplicate edge and synthesized an edge
\* for a dangling node, and a second repair of its result finds nothing.
C38_Witness ==
    /\ pc = "refreshed"
    /\ fixed >= 2
    /\ DroppedAsDuplicate # {}
    /\ Synthesized # {}
    /\ _ensureGraphIntegrity(_nodes, _edges, obj).fixed = 0

\* ------------------------------------ the legacy engine's _calcTreeDepths
\* js/forceLayout.js: the depth of a node is raised to one more than the
\* depth of a node that reaches it, and the node is queued again, as long
\* as a queued node has a child that is not deeper than itself.
LegacyMaxNodes == 3
LegacyMaxEdges == 2

\* The depth the model follows a run to. A run that returns never writes a
\* depth above the number of nodes minus one (a path without a repeated
\* node has at most that many edges), so a run that gets here is on a cycle.
LegacyDepthCap == 4

InitLegacy ==
    /\ \E k \in 0..LegacyMaxNodes :
        /\ nodes = [i \in 1..k |-> i]
        /\ obj = [i \in 1..k |-> NewNode(Null, i)]
        /\ edges \in EdgeArrays(InputIds(k, LegacyMaxNodes), LegacyMaxEdges)
    /\ _nodes = <<>>
    /\ _edges = <<>>
    /\ fixed = Undefined
    /\ argEdges = <<>>
    /\ pc = "called"
    /\ calc = NoCalc
    /\ EngineLiteral
    /\ NoListeners
    /\ NotAwaiting

\* children.get(id): the targets of the edges whose source is id, in edge
\* order; the map has an entry for every node of the array only.
LegacyChildren(id) ==
    LET out == SelectSeq(edges, LAMBDA e : e.source = id)
    IN  IF id \in Range(nodes) THEN [i \in DOMAIN out |-> out[i].target] ELSE <<>>

\* incoming.get(id): the edges whose target is id
LegacyIncoming(id) == Len(SelectSeq(edges, LAMBDA e : e.target = id))

\* The maps, n._depth = 0 for every node, the queue of the nodes without
\* incoming edge and the fallback q.push(nodes[0]).
LegacyBegin ==
    /\ pc = "called"
    /\ obj' = [n \in DOMAIN obj |->
                IF n \in Range(nodes) THEN [obj[n] EXCEPT !._depth = 0] ELSE obj[n]]
    /\ LET q == SelectSeq(nodes, LAMBDA n : LegacyIncoming(n) = 0)
       IN  calc' = [q |-> IF q = <<>> /\ Len(nodes) > 0 THEN <<nodes[1]>> ELSE q]
    /\ pc' = "while"
    /\ UNCHANGED <<nodes, edges, _nodes, _edges, fixed, argEdges, engineVars,
                   observerVars, asyncVars>>

\* for (const cid of children.get(curr.id) || []): if (cNode &&
\* cNode._depth <= curr._depth) { cNode._depth = curr._depth + 1;
\* q.push(cNode) }, the depths read from the node objects as they are.
RECURSIVE LegacyRelax(_, _, _)
LegacyRelax(cids, curr, st) ==
    IF cids = <<>> THEN st
    ELSE LET cid == Head(cids)
         IN  IF cid \in Range(nodes) /\ st.depth[cid] <= st.depth[curr]
             THEN LegacyRelax(Tail(cids), curr,
                              [depth |-> [st.depth EXCEPT ![cid] = st.depth[curr] + 1],
                               q |-> Append(st.q, cid)])
             ELSE LegacyRelax(Tail(cids), curr, st)

\* One iteration of while (q.length > 0): curr = q.shift() and the loop
\* over its children.
LegacyStep ==
    /\ pc = "while"
    /\ calc.q # <<>>
    /\ LET curr == Head(calc.q)
           st == LegacyRelax(LegacyChildren(curr), curr,
                             [depth |-> [n \in DOMAIN obj |-> obj[n]._depth],
                              q |-> Tail(calc.q)])
       IN  /\ \A n \in DOMAIN obj : st.depth[n] <= LegacyDepthCap
           /\ obj' = [n \in DOMAIN obj |-> [obj[n] EXCEPT !._depth = st.depth[n]]]
           /\ calc' = [q |-> st.q]
    /\ UNCHANGED <<nodes, edges, _nodes, _edges, fixed, argEdges, pc, engineVars,
                   observerVars, asyncVars>>

\* The queue is empty: maxD = Math.max(...depths, 1), n._maxDepth = maxD
\* for every node, return.
LegacyEnd ==
    /\ pc = "while"
    /\ calc.q = <<>>
    /\ LET ds == {obj[n]._depth : n \in Range(nodes)} \cup {1}
           maxD == CHOOSE d \in ds : \A x \in ds : x <= d
       IN  obj' = [n \in DOMAIN obj |->
                    IF n \in Range(nodes) THEN [obj[n] EXCEPT !._maxDepth = maxD]
                    ELSE obj[n]]
    /\ calc' = NoCalc
    /\ pc' = "done"
    /\ UNCHANGED <<nodes, edges, _nodes, _edges, fixed, argEdges, engineVars,
                   observerVars, asyncVars>>

NextLegacy == LegacyBegin \/ LegacyStep \/ LegacyEnd

\* The activation runs on: a step that is possible is taken.
SpecLegacy == InitLegacy /\ [][NextLegacy]_vars /\ WF_vars(NextLegacy)

\* C39 (as claimed): the legacy _calcTreeDepths returns on every finite
\* input, a graph with a cycle and no node without incoming edge included,
\* and no depth it writes reaches the number of nodes.
C39_LegacyCalcTerminates ==
    /\ [](\A n \in Range(nodes) : obj[n]._depth = Undefined \/ obj[n]._depth < Len(nodes))
    /\ <>(pc = "done")

\* -------------------------------------------- DropboxProvider._apiCall
MAX_RETRIES == 3

\* How one fetch of an attempt ends: a response with status 2xx, 429, 5xx
\* or another status that is not ok (4xx), a network error thrown by
\* fetch, or an AbortError.
Fetched == {"ok", "429", "5xx", "4xx", "network", "abort"}

\* What the caller passes in { isContent, isUpload }.
CallKinds == {"rpc", "content", "upload"}

InitApiCall ==
    /\ InitTree(1)
    /\ pc = "literal"

\* _apiCall up to the loop: without a token it throws new Error('...');
\* let lastError is declared and left undefined.
_apiCall(kind, token) ==
    /\ pc = "literal"
    /\ calc' = [kind |-> kind, attempt |-> 0, lastError |-> "undefined",
                fetched |-> <<>>,
                settled |-> IF token THEN "pending" ELSE "rejected",
                value |-> IF token THEN "none" ELSE "Error"]
    /\ pc' = IF token THEN "for" ELSE "rejected"
    /\ UNCHANGED <<nodes, edges, obj, _nodes, _edges, fixed, argEdges, engineVars,
                   observerVars, asyncVars>>

\* The promise of the call is settled: return value or throw e.
Settled(c, how, value) == [c EXCEPT !.settled = how, !.value = value]

\* One iteration of for (let attempt = 0; attempt < MAX_RETRIES; attempt++)
\* whose fetch ends as r: 429 and 5xx sleep and continue; a status that is
\* not ok throws an Error that the catch block rethrows; ok returns the
\* result; a network error is retried after a sleep unless this was the
\* last attempt, an AbortError is rethrown.
Attempt(r) ==
    /\ pc = "for"
    /\ calc.attempt < MAX_RETRIES
    /\ LET c == [calc EXCEPT !.fetched = Append(@, r)]
           next == [c EXCEPT !.attempt = @ + 1]
           caught == [c EXCEPT !.lastError = "Error"]
       IN  CASE r \in {"429", "5xx"} ->
                    calc' = next /\ pc' = "for"
             [] r = "ok" ->
                    /\ calc' = Settled(c, "resolved",
                                       IF c.kind = "content" THEN "response" ELSE "json")
                    /\ pc' = "resolved"
             [] r \in {"4xx", "abort"} ->
                    calc' = Settled(caught, "rejected", "Error") /\ pc' = "rejected"
             [] r = "network" ->
                    IF c.attempt < MAX_RETRIES - 1
                    THEN calc' = [caught EXCEPT !.attempt = @ + 1] /\ pc' = "for"
                    ELSE calc' = Settled(caught, "rejected", "Error") /\ pc' = "rejected"
    /\ UNCHANGED <<nodes, edges, obj, _nodes, _edges, fixed, argEdges, engineVars,
                   observerVars, asyncVars>>

\* The loop is over without a return or a throw: throw lastError.
ThrowLastError ==
    /\ pc = "for"
    /\ calc.attempt >= MAX_RETRIES
    /\ calc' = Settled(calc, "rejected", calc.lastError)
    /\ pc' = "rejected"
    /\ UNCHANGED <<nodes, edges, obj, _nodes, _edges, fixed, argEdges, engineVars,
                   observerVars, asyncVars>>

NextApiCall ==
    \/ \E kind \in CallKinds, token \in BOOLEAN : _apiCall(kind, token)
    \/ \E r \in Fetched : Attempt(r)
    \/ ThrowLastError

SpecApiCall == InitApiCall /\ [][NextApiCall]_vars

\* C40 (as claimed): whenever _apiCall does not return a result it rejects
\* with an Error object, also when each of its MAX_RETRIES attempts was
\* answered with 429 or a 5xx status.
C40_RejectsWithAnError ==
    pc = "rejected" => calc.value = "Error"

====
